---- MODULE Spec2Model ----
(***************************************************************************)
(* A model of the API-access layer of the Panasonic Comfort Cloud app:     *)
(*   - RateLimiter          (src/app.ts, class RateLimiter)                *)
(*   - PollScheduler        (src/unnamed/part_001)                         *)
(*   - ComfortCloudClient   (src/lib/panasonic/ComfortCloudClient.ts)      *)
(*   - createWritePayload   (src/lib/panasonic/Mappers.ts)                 *)
(*   - PanasonicAcDevice    (src/drivers/panasonic-ac/device.ts), polling  *)
(* JavaScript runs one callback at a time, so every action below is one    *)
(* run-to-completion step of the event loop: a public call, a timer        *)
(* callback, or the continuation of a settled promise.                     *)
(***************************************************************************)
EXTENDS Integers, Sequences, FiniteSets, Bags, TLC

VARIABLES
  now,          \* the value Date.now() returns
  options,      \* RateLimiterOptions handed to the RateLimiter constructor
  rateLimiter,  \* the RateLimiter: queue, activeCount, lastStart, its pending
                \* pacing timers, the operations running, the start history
  nextOp,       \* identifier of the next operation handed to schedule()
  settled,      \* outcome of the promise schedule() returned, per operation
  pollScheduler,\* the PollScheduler: running, jitter, the task map, the task
                \* objects, timers no handle refers to, executions in flight
  calls,        \* number of calls made on the PollScheduler's public methods
  thrown,       \* the error the latest of these calls threw, if any
  client,       \* the ComfortCloudClient: tokens, tokensLoaded; and the
                \* credential store behind its credentialsClient
  requests,     \* the client calls in progress, each a stack of request() frames
  upstream,     \* the Comfort Cloud service: the tokens it has issued, the
                \* answers it has given and the number it will give
  peer,         \* a second ComfortCloudClient built by createClient() over the
                \* same credential store: its tokens, tokensLoaded, stateCache
  device        \* a PanasonicAcDevice: its polling flag, its settings
                \* listener, whether it was deleted; the polls it has made

limiterVars == <<options, rateLimiter, nextOp, settled>>
schedulerVars == <<pollScheduler, calls, thrown>>
clientVars == <<client, requests, upstream, peer, device>>

----------------------------------------------------------------------------
\* Bounds of the model.

\* Number of schedule() calls made on the limiter.
MaxOps == 3
\* Unit clock ticks after Epoch; later instants are reached by jumping to a
\* pending timer's due time.
MaxTime == 3
\* Date.now() when the objects are constructed.
Epoch == 1000
\* Calls made on the PollScheduler's public methods.
MaxCalls == 4
\* Answers the upstream gives to the client's network calls.
MaxAnswers == 4
\* Answers the upstream gives to the network calls of a single request.
MaxRetryAnswers == 7
\* Calls made on the two clients that share the store, and the answers the
\* upstream gives to them.
MaxSessionCalls == 3
MaxSessionAnswers == 2
\* Answers the upstream gives to the reads and writes of device states.
MaxCacheAnswers == 2
\* Answers the upstream gives to the reads of a polling device.
MaxPollAnswers == 2

Max2(a, b) == IF a >= b THEN a ELSE b
Min2(a, b) == IF a <= b THEN a ELSE b

----------------------------------------------------------------------------
\* RateLimiter (src/app.ts:296-363)

\* constructor: this.maxConcurrent = Math.max(1, options.maxConcurrent ?? 2)
maxConcurrent ==
  Max2(1, IF "maxConcurrent" \in DOMAIN options THEN options.maxConcurrent ELSE 2)

\* constructor: this.minInterval = Math.max(0, options.minInterval ?? 200)
minInterval ==
  Max2(0, IF "minInterval" \in DOMAIN options THEN options.minInterval ELSE 200)

\* `this.maxQueueSize && ...` in schedule(): undefined and 0 are both falsy.
maxQueueSizeTruthy ==
  "maxQueueSize" \in DOMAIN options /\ options.maxQueueSize # 0

\* The option records the constructor is given in this model.
RateLimiterOptions ==
  LET base == [maxConcurrent : 0..2, minInterval : 0..2]
  IN  { [maxConcurrent |-> 1] }
      \cup base
      \cup { [maxConcurrent |-> b.maxConcurrent, minInterval |-> b.minInterval,
              maxQueueSize |-> q] : b \in base, q \in 0..2 }

\* A freshly constructed limiter.
NewRateLimiter ==
  [ queue |-> <<>>, activeCount |-> 0, lastStart |-> 0,
    timers |-> EmptyBag, running |-> {}, starts |-> <<>> ]

\* Mutant of process: the concurrency check is dropped.
process_noConcurrencyCheck(l, t) ==
  IF Len(l.queue) = 0 THEN l
  ELSE LET wait == Max2(0, minInterval - (t - l.lastStart)) IN
       IF wait > 0
         THEN [l EXCEPT !.timers = @ (+) SetToBag({t + wait})]
         ELSE [l EXCEPT !.queue = Tail(@),
                        !.activeCount = @ + 1,
                        !.lastStart = t,
                        !.running = @ \cup {Head(l.queue)},
                        !.starts = Append(@, <<Head(l.queue), t>>)]

\* Mutant of process: the pacing wait is computed but not honoured.
process_noPacing(l, t) ==
  IF Len(l.queue) = 0 THEN l
  ELSE IF l.activeCount >= maxConcurrent THEN l
  ELSE [l EXCEPT !.queue = Tail(@),
                 !.activeCount = @ + 1,
                 !.lastStart = t,
                 !.running = @ \cup {Head(l.queue)},
                 !.starts = Append(@, <<Head(l.queue), t>>)]

\* Mutant of process: the operation started is the one enqueued last.
process_lastFirst(l, t) ==
  IF Len(l.queue) = 0 THEN l
  ELSE IF l.activeCount >= maxConcurrent THEN l
  ELSE LET wait == Max2(0, minInterval - (t - l.lastStart)) IN
       IF wait > 0
         THEN [l EXCEPT !.timers = @ (+) SetToBag({t + wait})]
         ELSE [l EXCEPT !.queue = SubSeq(@, 1, Len(@) - 1),
                        !.activeCount = @ + 1,
                        !.lastStart = t,
                        !.running = @ \cup {l.queue[Len(l.queue)]},
                        !.starts = Append(@, <<l.queue[Len(l.queue)], t>>)]

\* process(): start the head of the queue if a slot is free and the pacing
\* interval has elapsed, else arm a pacing timer (or do nothing).
process(l, t) ==
  IF Len(l.queue) = 0 THEN l
  ELSE IF l.activeCount >= maxConcurrent THEN l
  ELSE LET wait == Max2(0, minInterval - (t - l.lastStart)) IN
       IF wait > 0
         THEN [l EXCEPT !.timers = @ (+) SetToBag({t + wait})]
         ELSE [l EXCEPT !.queue = Tail(@),
                        !.activeCount = @ + 1,
                        !.lastStart = t,
                        !.running = @ \cup {Head(l.queue)},
                        !.starts = Append(@, <<Head(l.queue), t>>)]

\* Mutant of queueFull: the bound is compared with > instead of >=.
queueFull_offByOne(l) ==
  maxQueueSizeTruthy /\ Len(l.queue) > options.maxQueueSize

\* The guard of schedule(): this.maxQueueSize && queue.length >= maxQueueSize.
queueFull(l) ==
  maxQueueSizeTruthy /\ Len(l.queue) >= options.maxQueueSize

\* schedule(fn) as a function of the limiter: push the item, then process().
enqueue(l, op, t) ==
  process([l EXCEPT !.queue = Append(@, op)], t)

\* Mutant of release: the slot is released, the queue is not looked at again.
release_noProcess(l, op, t) ==
  [l EXCEPT !.activeCount = @ - 1, !.running = @ \ {op}]

\* The .finally() handler of a started item: release the slot, then process().
release(l, op, t) ==
  process([l EXCEPT !.activeCount = @ - 1, !.running = @ \ {op}], t)

\* schedule(fn) called by some caller of the limiter.
schedule ==
  /\ nextOp <= MaxOps
  /\ nextOp' = nextOp + 1
  /\ IF queueFull(rateLimiter)
       THEN /\ settled' = [settled EXCEPT ![nextOp] = "queue full"]
            /\ UNCHANGED rateLimiter
       ELSE /\ rateLimiter' = enqueue(rateLimiter, nextOp, now)
            /\ UNCHANGED settled
  /\ UNCHANGED <<now, options, schedulerVars, clientVars>>

\* A pacing timer armed by process() fires: setTimeout(() => this.process(), wait).
pacingTimer ==
  \E due \in BagToSet(rateLimiter.timers) :
    /\ due <= now
    /\ rateLimiter' =
         process([rateLimiter EXCEPT !.timers = @ (-) SetToBag({due})], now)
    /\ UNCHANGED <<now, options, nextOp, settled, schedulerVars, clientVars>>

\* A started operation's promise settles: resolve or reject the caller, then
\* the .finally() handler runs.
complete ==
  \E op \in rateLimiter.running, outcome \in {"resolved", "rejected"} :
    /\ settled' = [settled EXCEPT ![op] = outcome]
    /\ rateLimiter' = release(rateLimiter, op, now)
    /\ UNCHANGED <<now, options, nextOp, schedulerVars, clientVars>>

\* Time passes by one unit.
tick ==
  /\ now < Epoch + MaxTime
  /\ now' = now + 1
  /\ UNCHANGED <<limiterVars, schedulerVars, clientVars>>

\* Time passes until a pending pacing timer is due.
tickToTimer ==
  \E due \in BagToSet(rateLimiter.timers) :
    /\ due > now
    /\ now' = due
    /\ UNCHANGED <<limiterVars, schedulerVars, clientVars>>

----------------------------------------------------------------------------
\* PollScheduler (src/unnamed/part_001)

\* Identifiers the callers register tasks under.
TaskIds == {"essential", "environment"}
\* The values of PollTask.immediate: true, false, or the field left out.
ImmediateFlags == {"true", "false", "undefined"}
\* The task intervals and the jitter options tried.
Intervals == {1, 2}
JitterOptions == {0, 2}

\* A task's timeout field: undefined, the handle of a pending timer, or the
\* handle of a timer that has already fired (the field is not reset on firing).
\* A pending timer carries the time left until it is due.
NoTimeout == [state |-> "undefined", left |-> 0]

\* constructor: this.jitter = options.jitter ?? 0; running = false; no tasks.
\* (stopped counts, per task object, the executions in flight that a stop()
\* call has overtaken; the code keeps no such record.)
NewPollScheduler(jitterOption) ==
  [ running |-> FALSE, jitter |-> jitterOption, tasks |-> <<>>, objs |-> <<>>,
    leaked |-> EmptyBag, inflight |-> <<>>, stopped |-> <<>>, logged |-> {} ]

\* The values Math.floor(Math.random() * this.jitter) can take.
JitterDraws(s) == IF s.jitter <= 0 THEN {0} ELSE 0..(s.jitter - 1)

\* Mutant of calculateDelay: the random part is rounded up.
calculateDelay_roundedUp(s, interval, r) ==
  IF s.jitter <= 0 THEN interval ELSE interval + r + 1

\* calculateDelay(interval), r being the random draw.
calculateDelay(s, interval, r) ==
  IF s.jitter <= 0 THEN interval ELSE interval + r

\* clearTimeout(task): cancel the timer the handle refers to and reset the field.
clearTimeout(s, o) ==
  IF s.objs[o].timeout.state # "undefined"
    THEN [s EXCEPT !.objs[o].timeout = NoTimeout]
    ELSE s

\* schedule(task, immediate): arm a timer and store its handle in task.timeout.
\* A pending timer whose handle is overwritten stays armed, referred to by
\* nothing (s.leaked).
scheduleTask(s, o, immediate, r) ==
  IF ~s.running THEN s
  ELSE LET delay == IF immediate THEN 0 ELSE calculateDelay(s, s.objs[o].interval, r)
           old == s.objs[o].timeout
       IN  [s EXCEPT !.objs[o].timeout = [state |-> "pending", left |-> delay],
                     !.leaked = IF old.state = "pending"
                                  THEN @ (+) SetToBag({[obj |-> o, left |-> old.left]})
                                  ELSE @]

\* Mutant of immediateOrTrue: a task without the flag is not immediate.
immediateOrTrue_defaultFalse(task) == task.immediate = "true"

\* task.immediate ?? true
immediateOrTrue(task) == task.immediate # "false"

\* Mutant of execute: the running check at its top is dropped.
execute_noRunningCheck(s, o) ==
  [s EXCEPT !.inflight[o] = @ + 1]

\* execute(task) up to the call of task.run(): nothing when stopped, else
\* start the action. (task.lastRun, which the code writes here and never
\* reads, is left out of the state.)
execute(s, o) ==
  IF ~s.running THEN s
  ELSE [s EXCEPT !.inflight[o] = @ + 1]

\* Mutant of settle: a rejected action is not caught, so finally is all that runs
\* and the failure is not logged nor the task rescheduled.
settle_failureEndsTask(s, o, outcome, r) ==
  LET done == [s EXCEPT !.inflight[o] = @ - 1,
                        !.stopped[o] = Min2(@, s.inflight[o] - 1)]
  IN  IF outcome = "rejected" THEN done
      ELSE IF done.running THEN scheduleTask(done, o, FALSE, r) ELSE done

\* Mutant of settle: finally does not schedule the next run.
settle_noReschedule(s, o, outcome, r) ==
  LET done == [s EXCEPT !.inflight[o] = @ - 1,
                        !.stopped[o] = Min2(@, s.inflight[o] - 1)]
  IN  IF outcome = "rejected"
        THEN [done EXCEPT !.logged = @ \cup {done.objs[o].id}]
        ELSE done

\* execute(task) after task.run() settled: catch logs a failure, finally
\* reschedules while the scheduler is running.
settle(s, o, outcome, r) ==
  LET done == [s EXCEPT !.inflight[o] = @ - 1,
                        !.stopped[o] = Min2(@, s.inflight[o] - 1)]
      caught == IF outcome = "rejected"
                  THEN [done EXCEPT !.logged = @ \cup {done.objs[o].id}]
                  ELSE done
  IN  IF caught.running THEN scheduleTask(caught, o, FALSE, r) ELSE caught

\* register(task) throws when the identifier is already registered.
registerThrows(s, id) == id \in DOMAIN s.tasks

\* Mutant of registerCall: a duplicate identifier replaces the registration.
registerCall_overwrites(id, interval, immediate, r) ==
  /\ calls < MaxCalls
  /\ calls' = calls + 1
  /\ thrown' = "nothing"
  /\ LET s == pollScheduler
         o == Len(s.objs) + 1
         state == [id |-> id, interval |-> interval, immediate |-> immediate,
                   timeout |-> NoTimeout]
         added == [s EXCEPT !.objs = Append(@, state),
                            !.inflight = Append(@, 0),
                            !.stopped = Append(@, 0),
                            !.tasks = [i \in DOMAIN @ \cup {id} |->
                                         IF i = id THEN o ELSE @[i]]]
     IN  pollScheduler' =
           IF added.running
             THEN scheduleTask(added, o, immediateOrTrue(state), r)
             ELSE added
  /\ UNCHANGED <<now, limiterVars, clientVars>>

\* register(task), r being the random draw of calculateDelay.
registerCall(id, interval, immediate, r) ==
  /\ calls < MaxCalls
  /\ calls' = calls + 1
  /\ thrown' = IF registerThrows(pollScheduler, id) THEN "already registered" ELSE "nothing"
  /\ IF registerThrows(pollScheduler, id)
       THEN UNCHANGED pollScheduler      \* throws: already registered
       ELSE LET s == pollScheduler
                o == Len(s.objs) + 1
                state == [id |-> id, interval |-> interval, immediate |-> immediate,
                          timeout |-> NoTimeout]
                added == [s EXCEPT !.objs = Append(@, state),
                                   !.inflight = Append(@, 0),
                                   !.stopped = Append(@, 0),
                                   !.tasks = @ @@ (id :> o)]
            IN  pollScheduler' =
                  IF added.running
                    THEN scheduleTask(added, o, immediateOrTrue(state), r)
                    ELSE added
  /\ UNCHANGED <<now, limiterVars, clientVars>>

register ==
  \E id \in TaskIds, interval \in Intervals, immediate \in ImmediateFlags,
     r \in JitterDraws(pollScheduler) :
    registerCall(id, interval, immediate, r)

\* updateInterval(id, interval), r being the random draw of calculateDelay.
updateIntervalCall(id, interval, r) ==
  /\ calls < MaxCalls
  /\ calls' = calls + 1
  /\ thrown' = IF id \notin DOMAIN pollScheduler.tasks THEN "unknown poll task" ELSE "nothing"
  /\ IF id \notin DOMAIN pollScheduler.tasks
       THEN UNCHANGED pollScheduler      \* throws: unknown poll task
       ELSE LET s == pollScheduler
                o == s.tasks[id]
                set == [s EXCEPT !.objs[o].interval = interval]
            IN  pollScheduler' =
                  IF set.running
                    THEN scheduleTask(clearTimeout(set, o), o, FALSE, r)
                    ELSE set
  /\ UNCHANGED <<now, limiterVars, clientVars>>

updateInterval ==
  \E id \in TaskIds, interval \in Intervals, r \in JitterDraws(pollScheduler) :
    updateIntervalCall(id, interval, r)

RECURSIVE scheduleAll(_, _, _)
\* The loop of start(): schedule(task, task.immediate ?? true) for every task.
scheduleAll(s, ids, rs) ==
  IF ids = {} THEN s
  ELSE LET id == CHOOSE i \in ids : TRUE
           o == s.tasks[id]
       IN  scheduleAll(scheduleTask(s, o, immediateOrTrue(s.objs[o]), rs[id]),
                       ids \ {id}, rs)

RECURSIVE clearAll(_, _)
\* The loop of stop(): clearTimeout(task) for every task.
clearAll(s, ids) ==
  IF ids = {} THEN s
  ELSE LET id == CHOOSE i \in ids : TRUE
       IN  clearAll(clearTimeout(s, s.tasks[id]), ids \ {id})

\* start()
start ==
  \E rs \in [TaskIds -> JitterDraws(pollScheduler)] :
    /\ calls < MaxCalls
    /\ calls' = calls + 1
    /\ thrown' = "nothing"
    /\ pollScheduler' =
         IF pollScheduler.running THEN pollScheduler
         ELSE scheduleAll([pollScheduler EXCEPT !.running = TRUE],
                          DOMAIN pollScheduler.tasks, rs)
    /\ UNCHANGED <<now, limiterVars, clientVars>>

\* stop()
stop ==
  /\ calls < MaxCalls
  /\ calls' = calls + 1
  /\ thrown' = "nothing"
  /\ pollScheduler' =
       IF ~pollScheduler.running THEN pollScheduler
       ELSE clearAll([pollScheduler EXCEPT !.running = FALSE,
                                           !.stopped = pollScheduler.inflight],
                     DOMAIN pollScheduler.tasks)
  /\ UNCHANGED <<now, limiterVars, clientVars>>

\* unregister(id)
unregister ==
  \E id \in TaskIds :
    /\ calls < MaxCalls
    /\ calls' = calls + 1
    /\ thrown' = "nothing"
    /\ IF id \notin DOMAIN pollScheduler.tasks
         THEN UNCHANGED pollScheduler
         ELSE LET s == clearTimeout(pollScheduler, pollScheduler.tasks[id])
              IN  pollScheduler' =
                    [s EXCEPT !.tasks = [i \in DOMAIN s.tasks \ {id} |-> s.tasks[i]]]
    /\ UNCHANGED <<now, limiterVars, clientVars>>

\* The callback of a timer armed by schedule() runs execute(task): the timer
\* the task's handle refers to, or one whose handle was overwritten.
timerFires(o) ==
  /\ o \in DOMAIN pollScheduler.objs
  /\ \/ /\ pollScheduler.objs[o].timeout.state = "pending"
        /\ pollScheduler.objs[o].timeout.left = 0
        /\ pollScheduler' =
             execute([pollScheduler EXCEPT !.objs[o].timeout =
                                             [state |-> "fired", left |-> 0]], o)
     \/ \E tm \in BagToSet(pollScheduler.leaked) :
          /\ tm.obj = o
          /\ tm.left = 0
          /\ pollScheduler' =
               execute([pollScheduler EXCEPT !.leaked = @ (-) SetToBag({tm})], o)
  /\ UNCHANGED <<now, limiterVars, calls, thrown, clientVars>>

timerCallback == \E o \in 1..MaxCalls : timerFires(o)

\* The action of a task settles (task.run() returns, resolves, throws or rejects).
actionSettles ==
  \E o \in DOMAIN pollScheduler.objs, outcome \in {"resolved", "rejected"},
     r \in JitterDraws(pollScheduler) :
    /\ pollScheduler.inflight[o] > 0
    /\ pollScheduler' = settle(pollScheduler, o, outcome, r)
    /\ UNCHANGED <<now, limiterVars, calls, thrown, clientVars>>

\* One unit of time passes for the scheduler's timers. A timer that is due
\* stays due until the event loop runs its callback.
elapse(tm) == IF tm.left > 0 THEN [tm EXCEPT !.left = @ - 1] ELSE tm

RECURSIVE elapseBag(_, _)
elapseBag(b, acc) ==
  IF BagToSet(b) = {} THEN acc
  ELSE LET tm == CHOOSE x \in BagToSet(b) : TRUE
       IN  elapseBag(b (-) SetToBag({tm}), acc (+) SetToBag({elapse(tm)}))

timePasses ==
  /\ \/ \E o \in DOMAIN pollScheduler.objs :
          pollScheduler.objs[o].timeout.state = "pending"
            /\ pollScheduler.objs[o].timeout.left > 0
     \/ \E tm \in BagToSet(pollScheduler.leaked) : tm.left > 0
  /\ pollScheduler' =
       [pollScheduler EXCEPT
          !.objs = [o \in DOMAIN @ |->
                      IF @[o].timeout.state = "pending"
                        THEN [@[o] EXCEPT !.timeout = elapse(@)]
                        ELSE @[o]],
          !.leaked = elapseBag(@, EmptyBag)]
  /\ UNCHANGED <<now, limiterVars, calls, thrown, clientVars>>

----------------------------------------------------------------------------
\* ComfortCloudClient (src/lib/panasonic/ComfortCloudClient.ts)
\*
\* A client call (listDevices/readState shaped: ensureAuthenticated(), then
\* request()) is a stack of request() frames: a retry or a refresh is a nested
\* request() awaited by the frame below it, which keeps its limiter slot when
\* the await sits inside the function it handed to rateLimiter.schedule().
\* The credential store of this repository (SettingsTokenStore, the in-memory
\* store) completes within the calling microtask, so the code between two
\* network, timer or limiter waits is one step.

\* The client calls made, possibly concurrently.
RequestIds == {1, 2}
\* HTTP statuses the upstream answers with; 0 is an error without a response
\* (axiosError.response undefined: the 20 s transport timeout, a network failure).
ApiStatuses == {200, 401, 404, 429, 503, 0}
RefreshStatuses == {200, 401, 503}
\* expiresIn (seconds) of a token response.
Lifetimes == {100, 3600}
\* Milliseconds by which Date.now() may have moved on between parseTokens and
\* the code that runs after the refresh has returned.
ClockSteps == {0, 1}

\* tokens: AuthTokens | null; null is the record with no access token.
NoTokens == [accessToken |-> 0, refreshToken |-> 0, expiresAt |-> 0]

\* Mutant of IsNull: the missing session is not noticed.
IsNull_never(tokens) == FALSE

\* !tokens
IsNull(tokens) == tokens.accessToken = 0

NoError == [kind |-> "none", status |-> 0]
\* A number that is undefined (an optional field that is absent).
undefined == 0 - 1000

\* A response body with none of the fields the client reads.
NoData ==
  [ accessToken |-> 0, refreshToken |-> 0, expiresIn |-> 0,
    minTemp |-> undefined, maxTemp |-> undefined ]

\* The device identifiers readState and writeState are called with.
DeviceIds == {1, 2}

\* stateCache.get(deviceId) of a device never read: undefined.
NoState == [raw |-> 0, minTemperature |-> undefined, maxTemperature |-> undefined]

\* A patch (Partial<DeviceState>) with no field, and a payload with none.
NoPatch ==
  [ on |-> "undefined", thermostatMode |-> "undefined",
    targetTemperature |-> undefined, minTemperature |-> undefined,
    maxTemperature |-> undefined, fanSpeed |-> "undefined",
    swingMode |-> "undefined" ]
NoPayload ==
  [ operate |-> undefined, operationMode |-> undefined, targetTemp |-> undefined,
    fanSpeed |-> undefined, airSwingUD |-> undefined, airSwingLR |-> undefined ]
Success(data) == [ok |-> TRUE, error |-> NoError, data |-> data]
Failure(kind, status) ==
  [ok |-> FALSE, error |-> [kind |-> kind, status |-> status], data |-> NoData]

\* constructor: tokens = null, tokensLoaded = false; session is what the
\* credential store holds.
\* storeFails says whether the store's set() throws (SettingsTokenStore.set
\* rethrows what settings.set throws), loggerThrows whether options.logger
\* throws when it is called.
NewClient(session, storeFails, loggerThrows) ==
  [ tokens |-> NoTokens, tokensLoaded |-> FALSE, store |-> session,
    storeFails |-> storeFails, loggerThrows |-> loggerThrows,
    stateCache |-> [d \in DeviceIds |-> NoState] ]

\* The second client after its construction; the store it is given is the
\* first one's (client.store).
NewPeer ==
  [ tokens |-> NoTokens, tokensLoaded |-> FALSE,
    stateCache |-> [d \in DeviceIds |-> NoState] ]

\* A call that has not been made yet. method is the HTTP method of the
\* request() the call is at, methods that of every attempt answered so far,
\* result the response the value returned to the caller was decoded from
\* (its place in responses). owner is the client the call is made on (1 the
\* client, 2 the peer), deviceId the device of readState/writeState (0 for a
\* call without one), patch and payload those of writeState.
IdleRequest ==
  [ status |-> "idle", frames |-> <<>>, error |-> NoError,
    owner |-> 1, deviceId |-> 0, patch |-> NoPatch, payload |-> NoPayload,
    method |-> "none", methods |-> <<>>, result |-> 0,
    responses |-> <<>>, sent |-> <<>>, sleeps |-> <<>>,
    refreshes |-> 0, forced |-> 0, lifetimes |-> <<>>,
    tokenResponses |-> <<>>, sessionAtCall |-> "none" ]

\* One invocation of request(config, {requiresAuth, attempt}); cont says who
\* awaits it, body is the refreshToken a refresh request posts. token is the
\* access token ensureAuthenticated() returned for the header, obtained says
\* whether it came from the cached session or from a refresh, remaining is its
\* expiresAt - Date.now() at that moment.
Frame(url, requiresAuth, attempt, cont, body) ==
  [ url |-> url, requiresAuth |-> requiresAuth, attempt |-> attempt,
    cont |-> cont, body |-> body, token |-> 0, obtained |-> "none",
    remaining |-> 0, pc |-> "start", wake |-> 0 ]

World ==
  [ client |-> client, requests |-> requests, rateLimiter |-> rateLimiter,
    upstream |-> upstream, peer |-> peer, device |-> device ]

Depth(w, c) == Len(w.requests[c].frames)
Top(w, c) == w.requests[c].frames[Depth(w, c)]
\* The limiter item of the frame at depth d of call c.
OpOf(c, d) == <<c, d>>

\* parseTokens(response, previous) at time t; previous is given by its
\* refreshToken, the one field of it a response with tokens can fall back on.
parseFails(data, previousRefreshToken) ==
  data.accessToken = 0 \/ (data.refreshToken = 0 /\ previousRefreshToken = 0)

parseTokens(data, previousRefreshToken, t) ==
  [ accessToken |-> data.accessToken,
    refreshToken |-> IF data.refreshToken # 0 THEN data.refreshToken
                     ELSE previousRefreshToken,
    expiresAt |-> t + Max2(data.expiresIn - 60, 60) * 1000 ]

\* this.tokens of the client call c is made on.
Tokens(w, c) ==
  IF w.requests[c].owner = 1 THEN w.client.tokens ELSE w.peer.tokens

\* getTokens(): load the session from the store on first use.
getTokens(w, c) ==
  IF w.requests[c].owner = 1
    THEN IF w.client.tokensLoaded THEN w
         ELSE [w EXCEPT !.client.tokens = w.client.store, !.client.tokensLoaded = TRUE]
    ELSE IF w.peer.tokensLoaded THEN w
         ELSE [w EXCEPT !.peer.tokens = w.client.store, !.peer.tokensLoaded = TRUE]

\* Mutant of setTokens: the store is written, the cached session is not.
setTokens_storeOnly(w, c, tokens) ==
  IF w.requests[c].owner = 1
    THEN [w EXCEPT !.client.tokensLoaded = TRUE, !.client.store = tokens]
    ELSE [w EXCEPT !.peer.tokensLoaded = TRUE, !.client.store = tokens]

\* setTokens(tokens), tokens not null: memory, then the store, whose set()
\* may throw.
setTokens(w, c, tokens) ==
  IF w.requests[c].owner = 1
    THEN [w EXCEPT !.client.tokens = tokens, !.client.tokensLoaded = TRUE,
                   !.client.store = IF w.client.storeFails THEN @ ELSE tokens]
    ELSE [w EXCEPT !.peer.tokens = tokens, !.peer.tokensLoaded = TRUE,
                   !.client.store = IF w.client.storeFails THEN @ ELSE tokens]

\* Mutant of clamp: the upper bound is not applied.
clamp_lowerOnly(value, min, max) ==
  IF min # undefined THEN Max2(min, value) ELSE value

\* Mappers.ts: clamp(value, min, max), each bound applied when it is a number.
clamp(value, min, max) ==
  LET raised == IF min # undefined THEN Max2(min, value) ELSE value
  IN  IF max # undefined THEN Min2(max, raised) ELSE raised

\* a ?? b
Coalesce(a, b) == IF a # undefined THEN a ELSE b

MODE_REVERSE_MAP == [auto |-> 0, heat |-> 1, dry |-> 2, cool |-> 3, fan |-> 4]
FAN_SPEED_REVERSE_MAP == [auto |-> 0, low |-> 1, medium |-> 2, high |-> 3]

\* createWritePayload(patch, currentState); currentState is NoState when
\* the cache has no entry (currentState?.minTemperature is then undefined).
createWritePayload(patch, currentState) ==
  [ operate |-> IF patch.on = "undefined" THEN undefined
                ELSE IF patch.on = "true" THEN 1 ELSE 0,
    operationMode |-> IF patch.thermostatMode = "undefined" THEN undefined
                      ELSE MODE_REVERSE_MAP[patch.thermostatMode],
    targetTemp |-> IF patch.targetTemperature = undefined THEN undefined
                   ELSE clamp(patch.targetTemperature,
                              Coalesce(patch.minTemperature, currentState.minTemperature),
                              Coalesce(patch.maxTemperature, currentState.maxTemperature)),
    fanSpeed |-> IF patch.fanSpeed = "undefined" THEN undefined
                 ELSE FAN_SPEED_REVERSE_MAP[patch.fanSpeed],
    airSwingUD |-> IF patch.swingMode = "undefined" THEN undefined
                   ELSE IF patch.swingMode \in {"vertical", "both"} THEN 1 ELSE 0,
    airSwingLR |-> IF patch.swingMode = "undefined" THEN undefined
                   ELSE IF patch.swingMode \in {"horizontal", "both"} THEN 1 ELSE 0 ]

\* mapDeviceState(response) as readState calls it (no device given, so the
\* features are those of the parameters): the bounds are the response's
\* minTemp and maxTemp where these are numbers. raw stands for the response
\* the state was decoded from: its place among the upstream's answers.
mapDeviceState(data, n) ==
  [ raw |-> n, minTemperature |-> data.minTemp, maxTemperature |-> data.maxTemp ]

\* this.stateCache of the client call c is made on.
StateCache(w, c) ==
  IF w.requests[c].owner = 1 THEN w.client.stateCache ELSE w.peer.stateCache

\* Mutant of stateCacheSet: the map is replaced by one with the new entry alone.
stateCacheSet_replacesMap(w, c, state) ==
  LET only == [d \in DeviceIds |-> IF d = w.requests[c].deviceId THEN state ELSE NoState]
  IN  IF w.requests[c].owner = 1
        THEN [w EXCEPT !.client.stateCache = only]
        ELSE [w EXCEPT !.peer.stateCache = only]

\* this.stateCache.set(deviceId, state)
stateCacheSet(w, c, state) ==
  IF w.requests[c].owner = 1
    THEN [w EXCEPT !.client.stateCache[w.requests[c].deviceId] = state]
    ELSE [w EXCEPT !.peer.stateCache[w.requests[c].deviceId] = state]

\* writeState after ensureAuthenticated() has returned:
\* createWritePayload(patch, this.stateCache.get(deviceId)).
withPayload(w, c) ==
  IF w.requests[c].method = "POST"
    THEN [w EXCEPT !.requests[c].payload =
                      createWritePayload(w.requests[c].patch,
                                         StateCache(w, c)[w.requests[c].deviceId])]
    ELSE w

\* The device as constructed: polling = false, no scheduler, no listener on
\* the app's settings (whose poll intervals are kept here, in the units of
\* the scheduler's timers). poll is the client call the pollOnce in progress
\* awaits, awaiting the task object whose execute() awaits that pollOnce,
\* entered the parity of the number of pollOnce calls made, schedulers the
\* number of PollSchedulers built by the device that are running.
NewDevice ==
  [ initialised |-> FALSE, deleted |-> FALSE, listening |-> FALSE,
    polling |-> FALSE, poll |-> 0, awaiting |-> 0, entered |-> 0,
    schedulers |-> 0,
    settings |-> [pollEssential |-> 1, pollEnvironment |-> 2, pollExtended |-> 2] ]

\* await this.credentialsClient.setTokens(tokens) throws.
setTokensThrows(w) == w.client.storeFails

\* this.logger?.(...) throws when logError calls it.
logErrorThrows(w) == w.client.loggerThrows

\* Mutant of reconciles: the state is read back whether the POST succeeded or not.
reconciles_always(method, result) == method = "POST"

\* writeState: await this.request(POST) has returned, so readState() is next.
reconciles(method, result) == method = "POST" /\ result.ok

\* Mutant of expiresSoon: no session is ever found expiring.
expiresSoon_never(tokens, t) == FALSE

\* const expiresSoon = tokens.expiresAt - Date.now() < 60 * 1000
expiresSoon(tokens, t) == tokens.expiresAt - t < 60 * 1000

\* Math.min(1000 * Math.pow(2, attempt), 15000)
backoff(attempt) == Min2(1000 * 2^attempt, 15000)

\* Mutant of unauthorizedRetry: the attempt count is not looked at.
unauthorizedRetry_unbounded(status, requiresAuth, attempt) ==
  status = 401 /\ requiresAuth

\* Mutant of unauthorizedRetry: requiresAuth is not looked at.
unauthorizedRetry_anyRequest(status, requiresAuth, attempt) ==
  status = 401 /\ attempt < 2

\* Mutant of retryable: every error status is retried.
retryable_clientErrors(status, attempt) ==
  status >= 400 /\ attempt < 4

\* Mutant of retryable: an error without a status counts as a server error.
retryable_noStatus(status, attempt) ==
  (status = 429 \/ status = 0 \/ status >= 500) /\ attempt < 4

\* (status === 429 || (status ?? 0) >= 500) && attempt < 4
retryable(status, attempt) ==
  (status = 429 \/ status >= 500) /\ attempt < 4

\* status === 401 && requiresAuth && attempt < 2
unauthorizedRetry(status, requiresAuth, attempt) ==
  status = 401 /\ requiresAuth /\ attempt < 2

\* return this.rateLimiter.schedule(async () => ...) of the top frame. (The
\* limiter the app builds has no maxQueueSize, so schedule() cannot throw.)
submit(w, c, t) ==
  LET d == Depth(w, c)
  IN  [w EXCEPT !.requests[c].frames[d].pc = "scheduled",
                !.rateLimiter = enqueue(@, OpOf(c, d), t)]

\* this.refresh(tokens), called by the top frame: a nested request() for
\* POST /auth/token with requiresAuth = false, which goes straight to schedule().
startRefresh(w, c, tokens, cont, t) ==
  LET d == Depth(w, c)
      pushed ==
        [w EXCEPT !.requests[c].frames =
                     Append([@ EXCEPT ![d].pc = "refreshing"],
                            Frame("refresh", FALSE, 0, cont, tokens.refreshToken)),
                  !.requests[c].refreshes = @ + 1,
                  !.requests[c].forced = @ + (IF cont = "unauthorized" THEN 1 ELSE 0)]
  IN  submit(pushed, c, t)

RECURSIVE finish(_, _, _, _, _)
RECURSIVE authenticate(_, _, _)
RECURSIVE ensureThenRequest(_, _, _)

\* request() of the top frame from its first line: ensureAuthenticated() when
\* requiresAuth (which may fail, or refresh first), then schedule().
authenticate(w, c, t) ==
  LET d == Depth(w, c)
      f == Top(w, c)
      loaded == getTokens(w, c)
      tokens == Tokens(loaded, c)
  IN  IF ~f.requiresAuth THEN submit(w, c, t)
      ELSE IF IsNull(tokens)
        THEN finish(loaded, c, Failure("credentials missing", 0), t, t)
      ELSE IF expiresSoon(tokens, t)
        THEN startRefresh(loaded, c, tokens, "ensure", t)
      ELSE submit([loaded EXCEPT !.requests[c].frames[d].token = tokens.accessToken,
                                 !.requests[c].frames[d].obtained = "cache",
                                 !.requests[c].frames[d].remaining = tokens.expiresAt - t],
                  c, t)

\* The top frame's request() settles with result at time t: its limiter slot
\* is released, and whoever awaited it goes on (code after it reads the clock
\* at t2 >= t).
finish(w, c, result, t, t2) ==
  LET d == Depth(w, c)
      f == Top(w, c)
      freed == IF OpOf(c, d) \in w.rateLimiter.running
                 THEN [w EXCEPT !.rateLimiter = release(@, OpOf(c, d), t)]
                 ELSE w
      popped == [freed EXCEPT !.requests[c].frames = SubSeq(@, 1, d - 1)]
      returned(v, r) ==
        [v EXCEPT !.requests[c].status = IF r.ok THEN "ok" ELSE "failed",
                  !.requests[c].error = r.error,
                  !.requests[c].result = IF r.ok THEN Len(v.requests[c].responses) ELSE 0]
  IN  IF d = 1 /\ f.url = "login" /\ result.ok
        THEN \* login(): parseTokens(response), setTokens(tokens), return tokens
             IF parseFails(result.data, 0)
               THEN returned(popped, Failure("authentication failed", 0))
             ELSE IF setTokensThrows(popped)
               THEN returned(setTokens(popped, c, parseTokens(result.data, 0, t)),
                            Failure("store", 0))
             ELSE returned(setTokens(popped, c, parseTokens(result.data, 0, t)), result)
      ELSE IF d = 1 /\ reconciles(w.requests[c].method, result)
        THEN \* writeState: const updated = await this.readState(deviceId)
             ensureThenRequest(
               [popped EXCEPT !.requests[c].method = "GET",
                              !.requests[c].frames = <<Frame("api", TRUE, 0, "caller", 0)>>],
               c, t2)
      ELSE IF d = 1 /\ result.ok /\ f.url = "api" /\ w.requests[c].deviceId # 0
        THEN \* readState: mapDeviceState(response), this.stateCache.set(...)
             returned(stateCacheSet(popped, c,
                                    mapDeviceState(result.data, w.upstream.answers)),
                      result)
      ELSE IF d = 1
        THEN \* the caller of the client gets the result
             returned(popped, result)
      ELSE IF f.cont = "retry"
        THEN \* return this.request(config, {attempt: attempt + 1})
             finish(popped, c, result, t, t2)
      ELSE IF ~result.ok
        THEN \* refresh() rejects: so does ensureAuthenticated / handleUnauthorized
             finish(popped, c, result, t, t2)
      ELSE IF parseFails(result.data, f.body)
        THEN finish(popped, c, Failure("authentication failed", 0), t, t2)
      ELSE IF setTokensThrows(popped)
        THEN \* setTokens() throws after the assignment to this.tokens
             finish(setTokens(popped, c, parseTokens(result.data, f.body, t)), c,
                    Failure("store", 0), t, t2)
      ELSE LET stored == setTokens(popped, c, parseTokens(result.data, f.body, t))
               next == Tokens(stored, c)
               p == Top(stored, c)
           IN  IF f.cont = "ensure"
                 THEN \* ensureAuthenticated() returns the refreshed tokens
                      submit([stored EXCEPT !.requests[c].frames[d - 1].token =
                                              next.accessToken,
                                            !.requests[c].frames[d - 1].obtained = "refresh",
                                            !.requests[c].frames[d - 1].remaining =
                                              next.expiresAt - t2], c, t2)
               ELSE IF f.cont = "preauth"
                 THEN \* the call's own ensureAuthenticated() is done: request()
                      authenticate(withPayload(stored, c), c, t2)
               ELSE \* handleUnauthorized() is done: retry with attempt + 1
                    authenticate(
                      [stored EXCEPT !.requests[c].frames =
                         Append([@ EXCEPT ![d - 1].pc = "retrying"],
                                Frame(p.url, p.requiresAuth, p.attempt + 1, "retry", p.body))],
                      c, t2)

\* await this.ensureAuthenticated(); await this.request(config): the body of
\* listDevices and readState, and of writeState up to its POST. The top frame
\* is the request() to be made.
ensureThenRequest(w, c, t) ==
  LET loaded == getTokens(w, c)
      tokens == Tokens(loaded, c)
  IN  IF IsNull(tokens)
        THEN finish(loaded, c, Failure("credentials missing", 0), t, t)
      ELSE IF expiresSoon(tokens, t)
        THEN startRefresh(loaded, c, tokens, "preauth", t)
      ELSE authenticate(withPayload(loaded, c), c, t)

\* The session a call finds when it is made.
sessionFound(w, c, t) ==
  LET tokens == Tokens(getTokens(w, c), c)
  IN  IF IsNull(tokens) THEN "missing"
      ELSE IF expiresSoon(tokens, t) THEN "expiring"
      ELSE "valid"

\* The catch block of the function request() hands to the limiter, and its
\* normal return, for the response (status) of the top frame's network call.
onResponse(w, c, status, data, t, t2) ==
  LET d == Depth(w, c)
      f == Top(w, c)
      seen == IF f.url = "api"
                THEN [w EXCEPT !.requests[c].responses = Append(@, status),
                               !.requests[c].methods = Append(@, w.requests[c].method),
                               !.requests[c].sent = Append(@, f.token)]
                ELSE [w EXCEPT !.requests[c].tokenResponses = Append(@, status)]
  IN  IF status = 200 THEN finish(seen, c, Success(data), t, t2)
      ELSE IF logErrorThrows(seen)
        THEN \* this.logError(...) throws out of the catch block
             finish(seen, c, Failure("logger", 0), t, t2)
      ELSE IF unauthorizedRetry(status, f.requiresAuth, f.attempt)
        THEN \* handleUnauthorized()
             LET loaded == getTokens(seen, c)
             IN  IF IsNull(Tokens(loaded, c))
                   THEN finish(loaded, c, Failure("tokens unavailable", 0), t, t2)
                   ELSE startRefresh(loaded, c, Tokens(loaded, c), "unauthorized", t)
      ELSE IF retryable(status, f.attempt)
        THEN \* await delay(backoff)
             [seen EXCEPT !.requests[c].frames[d].pc = "sleeping",
                          !.requests[c].frames[d].wake = t + backoff(f.attempt),
                          !.requests[c].sleeps =
                             IF f.url = "api" THEN Append(@, backoff(f.attempt)) ELSE @]
      ELSE finish(seen, c, Failure("http", status), t, t2)

\* The frame whose network call is in flight: started by the limiter, not
\* yet answered.
InFlight(w, c) ==
  /\ w.requests[c].status = "active"
  /\ Top(w, c).pc = "scheduled"
  /\ OpOf(c, Depth(w, c)) \in w.rateLimiter.running

\* Assign the world an operator computed.
Becomes(w) ==
  /\ client' = w.client
  /\ requests' = w.requests
  /\ rateLimiter' = w.rateLimiter
  /\ upstream' = w.upstream
  /\ peer' = w.peer
  /\ device' = w.device

\* The world in which the upstream has given one more answer.
Answered(w) == [w EXCEPT !.upstream.answers = @ + 1]

\* A caller invokes listDevices(): ensureAuthenticated(), then request(GET).
\* (readState(deviceId) does the same and then stores the state it decoded:
\* readState below.)
apiCall(c) ==
  /\ requests[c].status = "idle"
  /\ \A b \in RequestIds : b < c => requests[b].status # "idle"
  /\ LET w == [World EXCEPT !.requests[c].status = "active",
                            !.requests[c].method = "GET",
                            !.requests[c].sessionAtCall = sessionFound(World, c, now),
                            !.requests[c].frames = <<Frame("api", TRUE, 0, "caller", 0)>>]
     IN  Becomes(ensureThenRequest(w, c, now))
  /\ UNCHANGED <<now, options, nextOp, settled, schedulerVars>>

\* A caller invokes writeState(deviceId, patch): ensureAuthenticated(), then
\* request(POST /deviceStatus/control), then readState(deviceId). (Device 1
\* is switched on.)
writeCall(c) ==
  /\ requests[c].status = "idle"
  /\ \A b \in RequestIds : b < c => requests[b].status # "idle"
  /\ LET w == [World EXCEPT !.requests[c].status = "active",
                            !.requests[c].method = "POST",
                            !.requests[c].deviceId = 1,
                            !.requests[c].patch = [NoPatch EXCEPT !.on = "true"],
                            !.requests[c].sessionAtCall = sessionFound(World, c, now),
                            !.requests[c].frames = <<Frame("api", TRUE, 0, "caller", 0)>>]
     IN  Becomes(ensureThenRequest(w, c, now))
  /\ UNCHANGED <<now, options, nextOp, settled, schedulerVars>>

write == \E c \in RequestIds : writeCall(c)

\* A caller invokes login(credentials): request(POST /auth/login) with
\* requiresAuth = false.
loginCall(c) ==
  /\ requests[c].status = "idle"
  /\ \A b \in RequestIds : b < c => requests[b].status # "idle"
  /\ LET w == [World EXCEPT !.requests[c].status = "active",
                            !.requests[c].sessionAtCall = "login",
                            !.requests[c].frames = <<Frame("login", FALSE, 0, "caller", 0)>>]
     IN  Becomes(authenticate(w, c, now))
  /\ UNCHANGED <<now, options, nextOp, settled, schedulerVars>>

call == \E c \in RequestIds : apiCall(c) \/ loginCall(c)

\* A call on client o (1 the client, 2 the peer) of one of the methods that
\* start with ensureAuthenticated(): listDevices() (deviceId 0, GET),
\* readState(deviceId) (GET) or writeState(deviceId, patch) (POST).
invoked(w, c, o, method, deviceId, patch, t) ==
  LET made == [w EXCEPT !.requests[c].status = "active",
                        !.requests[c].owner = o,
                        !.requests[c].method = method,
                        !.requests[c].deviceId = deviceId,
                        !.requests[c].patch = patch,
                        !.requests[c].frames = <<Frame("api", TRUE, 0, "caller", 0)>>]
  IN  ensureThenRequest(
        [made EXCEPT !.requests[c].sessionAtCall = sessionFound(made, c, t)], c, t)

invoke(c, o, method, deviceId, patch) ==
  /\ requests[c].status = "idle"
  /\ \A b \in DOMAIN requests : b < c => requests[b].status # "idle"
  /\ Becomes(invoked(World, c, o, method, deviceId, patch, now))
  /\ UNCHANGED <<now, options, nextOp, settled, schedulerVars>>

listDevices(c, o) == invoke(c, o, "GET", 0, NoPatch)
readState(c, o, deviceId) == invoke(c, o, "GET", deviceId, NoPatch)
writeState(c, o, deviceId, patch) == invoke(c, o, "POST", deviceId, patch)

\* login(credentials) on client o.
login(c, o) ==
  /\ requests[c].status = "idle"
  /\ \A b \in DOMAIN requests : b < c => requests[b].status # "idle"
  /\ LET w == [World EXCEPT !.requests[c].status = "active",
                            !.requests[c].owner = o,
                            !.requests[c].sessionAtCall = "login",
                            !.requests[c].frames = <<Frame("login", FALSE, 0, "caller", 0)>>]
     IN  Becomes(authenticate(w, c, now))
  /\ UNCHANGED <<now, options, nextOp, settled, schedulerVars>>

\* device.ts: the device's client reads the device's state (pollOnce).
deviceCall == \E c \in DOMAIN requests : readState(c, 1, 1)

\* driver.ts onPair: the pairing session's client logs in and lists the devices.
pairingCall == \E c \in DOMAIN requests : login(c, 2) \/ listDevices(c, 2)

\* The upstream answers the network call of the top frame of call c with
\* status, which is not one that carries tokens.
answer(c, status) ==
  /\ InFlight(World, c)
  /\ upstream.answers < upstream.budget
  /\ Becomes(onResponse(Answered(World), c, status, NoData, now, now))
  /\ UNCHANGED <<now, options, nextOp, settled, schedulerVars>>

\* The upstream answers a login or refresh call with 200 and freshly issued
\* tokens of the given lifetime; the code that runs after parseTokens may read
\* a later clock value than parseTokens did.
grant(c, lifetime, e) ==
  /\ InFlight(World, c)
  /\ upstream.answers < upstream.budget
  /\ Top(World, c).url # "api"
  /\ LET n == upstream.issued + 1
         data == [NoData EXCEPT !.accessToken = n, !.refreshToken = n,
                                !.expiresIn = lifetime]
         w == [Answered(World) EXCEPT !.upstream.issued = n,
                                      !.requests[c].lifetimes = Append(@, lifetime)]
     IN  Becomes(onResponse(w, c, 200, data, now, now + e))
  /\ now' = now + e
  /\ UNCHANGED <<options, nextOp, settled, schedulerVars>>

respond ==
  \E c \in DOMAIN requests :
    /\ InFlight(World, c)
    /\ \/ \E status \in ApiStatuses : Top(World, c).url = "api" /\ answer(c, status)
       \/ \E status \in RefreshStatuses \ {200} :
            Top(World, c).url # "api" /\ answer(c, status)
       \/ \E lifetime \in Lifetimes, e \in ClockSteps : grant(c, lifetime, e)

\* The upstream answers the GET /deviceStatus/{id} of the top frame of call c
\* with 200 and parameters that carry the unit's temperature bounds (either
\* may be missing).
report(c, min, max) ==
  /\ InFlight(World, c)
  /\ upstream.answers < upstream.budget
  /\ Top(World, c).url = "api"
  /\ requests[c].method = "GET"
  /\ requests[c].deviceId # 0
  /\ Becomes(onResponse(Answered(World), c, 200,
                        [NoData EXCEPT !.minTemp = min, !.maxTemp = max], now, now))
  /\ UNCHANGED <<now, options, nextOp, settled, schedulerVars>>

\* The bounds a unit reports.
ReportedBounds ==
  { [min |-> 16, max |-> 30], [min |-> 16, max |-> undefined] }

reportState ==
  \E c \in DOMAIN requests, b \in ReportedBounds : report(c, b.min, b.max)

\* The patches writeState is called with: a target temperature below, within
\* and above the usual range, alone or with bounds of the patch's own; the
\* patch of the repository's test; a patch without a temperature.
Patches ==
  { [NoPatch EXCEPT !.targetTemperature = t] : t \in {10, 22, 40} }
  \cup { [NoPatch EXCEPT !.targetTemperature = t, !.minTemperature = 18,
                         !.maxTemperature = 24] : t \in {10, 22, 40} }
  \cup { [NoPatch EXCEPT !.on = "false", !.thermostatMode = "heat",
                         !.targetTemperature = 40, !.fanSpeed = "low",
                         !.swingMode = "both"],
         [NoPatch EXCEPT !.on = "true"] }

\* A caller reads or writes the state of a device through the client.
stateCall ==
  \E c \in DOMAIN requests, d \in DeviceIds :
    \/ readState(c, 1, d)
    \/ \E patch \in Patches : writeState(c, 1, d, patch)

----------------------------------------------------------------------------
\* PanasonicAcDevice (src/drivers/panasonic-ac/device.ts): polling.
\*
\* The device reads its state (device 1) through the client; pollScheduler is
\* the PollScheduler this.pollScheduler refers to. A scheduler the device has
\* replaced was stopped first, so its timers are cleared and the executions
\* it has in flight end without arming one: it is not kept.

\* new PollScheduler({logger, jitter: 2000}), in the units of the timers.
DeviceJitter == 2

\* The settings keys the device's listener is called with.
SettingKeys == {"pollEssential", "pollEnvironment", "pollExtended", "debugLogging"}
PollKeys == {"pollEssential", "pollEnvironment", "pollExtended"}
\* The value a setting is changed to.
SettingValues == {2}

\* registerTask({id, interval, run, immediate: true}) on a scheduler that is
\* not running and has no task of that id: register() stores the task.
registerTask(s, id, interval) ==
  [s EXCEPT !.objs = Append(@, [id |-> id, interval |-> interval,
                                immediate |-> "true", timeout |-> NoTimeout]),
            !.inflight = Append(@, 0),
            !.stopped = Append(@, 0),
            !.tasks = @ @@ (id :> (Len(s.objs) + 1))]

\* stop() of the scheduler the device holds.
stopped(s) ==
  IF ~s.running THEN s
  ELSE clearAll([s EXCEPT !.running = FALSE, !.stopped = s.inflight], DOMAIN s.tasks)

\* configurePolling(): stop the scheduler held, build a new one, register the
\* three tasks with the intervals of the settings, start it.
configurePolling(s, settings) ==
  LET essential == registerTask(NewPollScheduler(DeviceJitter), "essential",
                                settings.pollEssential)
      environment == registerTask(essential, "environment", settings.pollEnvironment)
      extended == registerTask(environment, "extended", settings.pollExtended)
  IN  scheduleAll([extended EXCEPT !.running = TRUE], DOMAIN extended.tasks,
                  [id \in DOMAIN extended.tasks |-> 0])

\* The device after configurePolling(): the executions of the old scheduler
\* are no longer those of this.pollScheduler.
reconfigured(dev, s) ==
  [dev EXCEPT !.awaiting = 0,
              !.schedulers = @ - (IF s.running THEN 1 ELSE 0) + 1]

\* Mutant of pollOnce: the polling flag is not looked at.
pollOnce_noGuard(w, c, o, t) ==
  invoked([w EXCEPT !.device.polling = TRUE, !.device.poll = c,
                    !.device.awaiting = o, !.device.entered = 1 - @],
          c, 1, "GET", 1, NoPatch, t)

\* pollOnce(scope) up to its first wait: return when a poll is in progress,
\* else set the flag and call this.client.readState(this.getDeviceId()).
\* o is the task object whose execute() called it, 0 when onInit or
\* handleDriverRescan did.
pollOnce(w, c, o, t) ==
  IF w.device.polling
    THEN [w EXCEPT !.device.entered = 1 - @]
    ELSE invoked([w EXCEPT !.device.polling = TRUE, !.device.poll = c,
                           !.device.awaiting = o, !.device.entered = 1 - @],
                 c, 1, "GET", 1, NoPatch, t)

\* The call a pollOnce would make next: the first not made yet.
NextCall ==
  IF \E c \in DOMAIN requests : requests[c].status = "idle"
    THEN CHOOSE c \in DOMAIN requests :
           /\ requests[c].status = "idle"
           /\ \A b \in DOMAIN requests : b < c => requests[b].status # "idle"
    ELSE 0

\* onInit(): createClient(), the capabilities (taken to succeed),
\* configurePolling(), the settings listener, then pollOnce('essential').
onInit ==
  /\ ~device.initialised
  /\ NextCall # 0
  /\ pollScheduler' = configurePolling(stopped(pollScheduler), device.settings)
  /\ LET dev == [reconfigured(device, pollScheduler) EXCEPT !.initialised = TRUE,
                                                           !.listening = TRUE]
     IN  Becomes(pollOnce([World EXCEPT !.device = dev], NextCall, 0, now))
  /\ UNCHANGED <<now, options, nextOp, settled, calls, thrown>>

\* The listener onInit registered on homey.settings is called: a change of a
\* poll interval runs configurePolling().
settingsSet ==
  \E key \in SettingKeys, value \in SettingValues :
    /\ device.listening
    /\ IF key \in PollKeys
         THEN LET settings == [device.settings EXCEPT ![key] = value]
              IN  /\ pollScheduler' = configurePolling(stopped(pollScheduler), settings)
                  /\ device' = [reconfigured(device, pollScheduler)
                                  EXCEPT !.settings = settings]
         ELSE UNCHANGED <<pollScheduler, device>>
    /\ UNCHANGED <<now, limiterVars, calls, thrown, client, requests, upstream, peer>>

\* onDeleted(): this.pollScheduler?.stop()
onDeleted ==
  /\ device.initialised
  /\ ~device.deleted
  /\ pollScheduler' = stopped(pollScheduler)
  /\ device' = [device EXCEPT !.deleted = TRUE,
                              !.schedulers = @ - (IF pollScheduler.running THEN 1 ELSE 0)]
  /\ UNCHANGED <<now, limiterVars, calls, thrown, client, requests, upstream, peer>>

\* handleDriverRescan(), which the driver calls on the devices it has:
\* the capabilities, then pollOnce('extended').
handleDriverRescan ==
  /\ device.initialised
  /\ ~device.deleted
  /\ NextCall # 0
  /\ Becomes(pollOnce(World, NextCall, 0, now))
  /\ UNCHANGED <<now, options, nextOp, settled, schedulerVars>>

\* The timer of a task of the device's scheduler fires: execute(task) calls
\* task.run(), which is pollOnce(scope). A pollOnce the guard turns away has
\* returned at once, so execute() goes on to its finally.
timerPolls(o) ==
  /\ o \in DOMAIN pollScheduler.objs
  /\ pollScheduler.objs[o].timeout.state = "pending"
  /\ pollScheduler.objs[o].timeout.left = 0
  /\ NextCall # 0
  /\ LET fired == [pollScheduler EXCEPT !.objs[o].timeout =
                                          [state |-> "fired", left |-> 0]]
     IN  IF ~fired.running
           THEN pollScheduler' = fired /\ Becomes(World)
           ELSE /\ Becomes(pollOnce(World, NextCall, o, now))
                /\ \E r \in JitterDraws(fired) :
                     pollScheduler' =
                       IF device.polling
                         THEN settle(execute(fired, o), o, "resolved", r)
                         ELSE execute(fired, o)
  /\ UNCHANGED <<now, options, nextOp, settled, calls, thrown>>

pollTick == \E o \in 1..3 : timerPolls(o)

\* The readState a pollOnce awaits has settled: applyState (whose failures
\* are caught one by one) or the catch block, then finally resets the flag;
\* the execute() that awaited the pollOnce goes on to its finally.
pollEnds ==
  /\ device.poll # 0
  /\ requests[device.poll].status \in {"ok", "failed"}
  /\ device' = [device EXCEPT !.polling = FALSE, !.poll = 0, !.awaiting = 0]
  /\ \E r \in JitterDraws(pollScheduler) :
       pollScheduler' =
         IF device.awaiting # 0
           THEN settle(pollScheduler, device.awaiting, "resolved", r)
           ELSE pollScheduler
  /\ UNCHANGED <<now, limiterVars, calls, thrown, client, requests, upstream, peer>>

----------------------------------------------------------------------------
\* A backoff delay is over: return this.request(config, {attempt: attempt + 1}).
wake ==
  \E c \in DOMAIN requests :
    /\ requests[c].status = "active"
    /\ Top(World, c).pc = "sleeping"
    /\ Top(World, c).wake <= now
    /\ LET d == Depth(World, c)
           f == Top(World, c)
           w == [World EXCEPT !.requests[c].frames =
                    Append([@ EXCEPT ![d].pc = "retrying"],
                           Frame(f.url, f.requiresAuth, f.attempt + 1, "retry", f.body))]
       IN  Becomes(authenticate(w, c, now))
    /\ UNCHANGED <<now, options, nextOp, settled, schedulerVars>>

\* The limiter's pacing timer, for the client's limiter.
clientPacingTimer ==
  \E due \in BagToSet(rateLimiter.timers) :
    /\ due <= now
    /\ rateLimiter' =
         process([rateLimiter EXCEPT !.timers = @ (-) SetToBag({due})], now)
    /\ UNCHANGED <<now, options, nextOp, settled, schedulerVars, clientVars>>

\* Time passes until a backoff delay or a pacing timer is due.
timeToNextTimer ==
  \E due \in BagToSet(rateLimiter.timers)
             \cup { Top(World, c).wake :
                      c \in { r \in DOMAIN requests : requests[r].status = "active"
                                                  /\ Top(World, r).pc = "sleeping" } } :
    /\ due > now
    /\ now' = due
    /\ UNCHANGED <<limiterVars, schedulerVars, clientVars>>

----------------------------------------------------------------------------
\* The specifications.

vars == <<now, options, rateLimiter, nextOp, settled, pollScheduler, calls, thrown,
          client, requests, upstream, peer, device>>


InitLimiter ==
  /\ now = Epoch
  /\ options \in RateLimiterOptions
  /\ rateLimiter = NewRateLimiter
  /\ nextOp = 1
  /\ settled = [op \in 1..MaxOps |-> "pending"]
  /\ pollScheduler = NewPollScheduler(0)
  /\ calls = 0
  /\ thrown = "nothing"
  /\ client = NewClient(NoTokens, FALSE, FALSE)
  /\ requests = [c \in RequestIds |-> IdleRequest]
  /\ upstream = [issued |-> 0, answers |-> 0, budget |-> MaxAnswers]
  /\ peer = NewPeer
  /\ device = NewDevice

NextLimiter ==
  \/ schedule
  \/ pacingTimer
  \/ complete
  \/ tick
  \/ tickToTimer

SpecLimiter == InitLimiter /\ [][NextLimiter]_vars

\* The limiter under the scheduling of the event loop: a promise that can
\* settle does settle (the proviso that every started operation completes), a
\* timer that is due fires, and time goes on to the next pending timer.
FairLimiter ==
  /\ WF_vars(complete)
  /\ WF_vars(pacingTimer)
  /\ WF_vars(tickToTimer)

SpecLimiterFair == InitLimiter /\ [][NextLimiter]_vars /\ FairLimiter

InitScheduler ==
  /\ now = Epoch
  /\ options = [maxConcurrent |-> 1]
  /\ rateLimiter = NewRateLimiter
  /\ nextOp = 1
  /\ settled = [op \in 1..MaxOps |-> "pending"]
  /\ \E j \in JitterOptions : pollScheduler = NewPollScheduler(j)
  /\ calls = 0
  /\ thrown = "nothing"
  /\ client = NewClient(NoTokens, FALSE, FALSE)
  /\ requests = [c \in RequestIds |-> IdleRequest]
  /\ upstream = [issued |-> 0, answers |-> 0, budget |-> MaxAnswers]
  /\ peer = NewPeer
  /\ device = NewDevice

NextScheduler ==
  \/ register
  \/ updateInterval
  \/ start
  \/ stop
  \/ unregister
  \/ timerCallback
  \/ actionSettles
  \/ timePasses

SpecScheduler == InitScheduler /\ [][NextScheduler]_vars

\* The scheduler under the scheduling of the event loop: time goes on, the
\* callback of every timer that is due runs, and every action invoked
\* settles (the proviso that every action invocation terminates).
FairScheduler ==
  /\ WF_vars(timePasses)
  /\ WF_vars(actionSettles)
  /\ \A o \in 1..MaxCalls : WF_vars(timerFires(o))

SpecSchedulerFair == InitScheduler /\ [][NextScheduler]_vars /\ FairScheduler

\* new RateLimiter({maxConcurrent: 2, minInterval: 400, logger}) in onInit.
AppLimiterOptions == [maxConcurrent |-> 2, minInterval |-> 400]

\* The limiter options of the client's limiter: the app's (maxConcurrent 2,
\* minInterval 400), a single slot, and five slots without pacing.
ClientLimiterOptions ==
  { AppLimiterOptions,
    [maxConcurrent |-> 1, minInterval |-> 0],
    [maxConcurrent |-> 5, minInterval |-> 0] }

\* The sessions the credential store may hold when the client is built: none,
\* one about to expire, one with most of an hour left.
InitialSessions ==
  { NoTokens,
    [accessToken |-> 1, refreshToken |-> 1, expiresAt |-> Epoch + 30 * 1000],
    [accessToken |-> 1, refreshToken |-> 1, expiresAt |-> Epoch + 3540 * 1000] }

InitClient ==
  /\ now = Epoch
  /\ options \in ClientLimiterOptions
  /\ rateLimiter = NewRateLimiter
  /\ nextOp = 1
  /\ settled = [op \in 1..MaxOps |-> "pending"]
  /\ pollScheduler = NewPollScheduler(0)
  /\ calls = 0
  /\ thrown = "nothing"
  /\ \E session \in InitialSessions, storeFails \in BOOLEAN :
       client = NewClient(session, storeFails, FALSE)
  /\ requests = [c \in RequestIds |-> IdleRequest]
  /\ upstream = [issued |-> 1, answers |-> 0, budget |-> MaxAnswers]
  /\ peer = NewPeer
  /\ device = NewDevice

NextClient ==
  \/ call
  \/ respond
  \/ wake
  \/ clientPacingTimer
  \/ timeToNextTimer

SpecClient == InitClient /\ [][NextClient]_vars

\* One client call, a login or an authenticated request, answered as often
\* as its retries need.
InitRetry ==
  /\ now = Epoch
  /\ options \in ClientLimiterOptions
  /\ rateLimiter = NewRateLimiter
  /\ nextOp = 1
  /\ settled = [op \in 1..MaxOps |-> "pending"]
  /\ pollScheduler = NewPollScheduler(0)
  /\ calls = 0
  /\ thrown = "nothing"
  /\ \E session \in InitialSessions : client = NewClient(session, FALSE, FALSE)
  /\ requests = [c \in RequestIds |-> IdleRequest]
  /\ upstream = [issued |-> 1, answers |-> 0, budget |-> MaxRetryAnswers]
  /\ peer = NewPeer
  /\ device = NewDevice

oneCall == apiCall(1) \/ loginCall(1)

NextRetry ==
  \/ oneCall
  \/ respond
  \/ wake
  \/ clientPacingTimer
  \/ timeToNextTimer

SpecRetry == InitRetry /\ [][NextRetry]_vars

\* Two clients built by createClient(), the one of a device and the one of a
\* pairing session, over the app's credential store and behind its limiter.
InitSessions ==
  /\ now = Epoch
  /\ options = AppLimiterOptions
  /\ rateLimiter = NewRateLimiter
  /\ nextOp = 1
  /\ settled = [op \in 1..MaxOps |-> "pending"]
  /\ pollScheduler = NewPollScheduler(0)
  /\ calls = 0
  /\ thrown = "nothing"
  /\ \E session \in InitialSessions : client = NewClient(session, FALSE, FALSE)
  /\ requests = [c \in 1..MaxSessionCalls |-> IdleRequest]
  /\ upstream = [issued |-> 1, answers |-> 0, budget |-> MaxSessionAnswers]
  /\ peer = NewPeer
  /\ device = NewDevice

NextSessions ==
  \/ deviceCall
  \/ pairingCall
  \/ respond
  \/ wake
  \/ clientPacingTimer
  \/ timeToNextTimer

SpecSessions == InitSessions /\ [][NextSessions]_vars

\* The client reading and writing the states of two devices, with a valid
\* session, behind the app's limiter.
InitCache ==
  /\ now = Epoch
  /\ options = AppLimiterOptions
  /\ rateLimiter = NewRateLimiter
  /\ nextOp = 1
  /\ settled = [op \in 1..MaxOps |-> "pending"]
  /\ pollScheduler = NewPollScheduler(0)
  /\ calls = 0
  /\ thrown = "nothing"
  /\ client = NewClient([accessToken |-> 1, refreshToken |-> 1,
                         expiresAt |-> Epoch + 3540 * 1000], FALSE, FALSE)
  /\ requests = [c \in RequestIds |-> IdleRequest]
  /\ upstream = [issued |-> 1, answers |-> 0, budget |-> MaxCacheAnswers]
  /\ peer = NewPeer
  /\ device = NewDevice

NextCache ==
  \/ stateCall
  \/ respond
  \/ reportState
  \/ wake
  \/ clientPacingTimer
  \/ timeToNextTimer

SpecCache == InitCache /\ [][NextCache]_vars

\* A device from its construction on: its polling, the answers of the
\* upstream to its reads, changes of the settings, its deletion.
InitDevice ==
  /\ now = Epoch
  /\ options = AppLimiterOptions
  /\ rateLimiter = NewRateLimiter
  /\ nextOp = 1
  /\ settled = [op \in 1..MaxOps |-> "pending"]
  /\ pollScheduler = NewPollScheduler(0)
  /\ calls = 0
  /\ thrown = "nothing"
  /\ \E session \in InitialSessions : client = NewClient(session, FALSE, FALSE)
  /\ requests = [c \in RequestIds |-> IdleRequest]
  /\ upstream = [issued |-> 1, answers |-> 0, budget |-> MaxPollAnswers]
  /\ peer = NewPeer
  /\ device = NewDevice

NextDevice ==
  \/ onInit
  \/ settingsSet
  \/ onDeleted
  \/ handleDriverRescan
  \/ pollTick
  \/ pollEnds
  \/ timePasses
  \/ respond
  \/ wake
  \/ clientPacingTimer
  \/ timeToNextTimer

SpecDevice == InitDevice /\ [][NextDevice]_vars

\* The client as a device uses it to control the unit: the client the app
\* builds (createClient, behind the app's limiter), writeState calls, a store
\* that works, and a logging sink (options.logger) that may throw.
InitWrite ==
  /\ now = Epoch
  /\ options = AppLimiterOptions
  /\ rateLimiter = NewRateLimiter
  /\ nextOp = 1
  /\ settled = [op \in 1..MaxOps |-> "pending"]
  /\ pollScheduler = NewPollScheduler(0)
  /\ calls = 0
  /\ thrown = "nothing"
  /\ \E session \in InitialSessions, loggerThrows \in BOOLEAN :
       client = NewClient(session, FALSE, loggerThrows)
  /\ requests = [c \in RequestIds |-> IdleRequest]
  /\ upstream = [issued |-> 1, answers |-> 0, budget |-> MaxAnswers]
  /\ peer = NewPeer
  /\ device = NewDevice

NextWrite ==
  \/ write
  \/ respond
  \/ wake
  \/ clientPacingTimer
  \/ timeToNextTimer

SpecWrite == InitWrite /\ [][NextWrite]_vars

----------------------------------------------------------------------------
\* Claims about the RateLimiter.

\* The operations accepted by schedule() and not yet started or settled.
Waiting == { rateLimiter.queue[i] : i \in 1..Len(rateLimiter.queue) }

\* C1: the number of operations started and not yet completed never exceeds
\* maxConcurrent, and activeCount always equals that number.
C1_ConcurrencyBound ==
  /\ Cardinality(rateLimiter.running) <= maxConcurrent
  /\ rateLimiter.activeCount = Cardinality(rateLimiter.running)

\* C1 witness: every slot is taken while another operation waits in the queue
\* with the pacing interval already elapsed.
C1_Witness ==
  /\ Cardinality(rateLimiter.running) = maxConcurrent
  /\ Len(rateLimiter.queue) > 0
  /\ now - rateLimiter.lastStart >= minInterval

\* C2: with minInterval > 0, any two operations started one after the other
\* are started at least minInterval apart.
C2_Pacing ==
  minInterval > 0 =>
    \A i \in 2..Len(rateLimiter.starts) :
      rateLimiter.starts[i][2] - rateLimiter.starts[i - 1][2] >= minInterval

\* C2 witness: a second operation was started exactly minInterval after the
\* first, having had to wait for a pacing timer.
C2_Witness ==
  /\ minInterval > 0
  /\ Len(rateLimiter.starts) >= 2
  /\ rateLimiter.starts[2][2] - rateLimiter.starts[1][2] = minInterval

\* C6 (as claimed): whenever maxQueueSize is configured, the waiting queue
\* never holds more than maxQueueSize entries.
C6_QueueBoundWhenConfigured ==
  "maxQueueSize" \in DOMAIN options =>
    Len(rateLimiter.queue) <= options.maxQueueSize

\* C6 (amended): with maxQueueSize configured to a positive value, a
\* schedule() call that finds maxQueueSize operations waiting fails with
\* "queue full" and leaves the limiter as it was, the rejected operation is
\* never enqueued or started, and the queue never exceeds maxQueueSize.
C6_QueueFullRejects ==
  [][ ( "maxQueueSize" \in DOMAIN options /\ options.maxQueueSize > 0 ) =>
        /\ Len(rateLimiter'.queue) <= options.maxQueueSize
        /\ ( nextOp' # nextOp /\ Len(rateLimiter.queue) = options.maxQueueSize ) =>
             /\ settled'[nextOp] = "queue full"
             /\ rateLimiter' = rateLimiter
        /\ \A op \in 1..MaxOps :
             settled[op] = "queue full" =>
               /\ settled'[op] = "queue full"
               /\ op \notin rateLimiter'.running
               /\ \A i \in 1..Len(rateLimiter'.queue) : rateLimiter'.queue[i] # op
               /\ \A i \in 1..Len(rateLimiter'.starts) : rateLimiter'.starts[i][1] # op
    ]_vars

\* C6 witness: an operation was rejected with "queue full" while the queue
\* holds exactly maxQueueSize waiting operations.
C6_Witness ==
  /\ "maxQueueSize" \in DOMAIN options /\ options.maxQueueSize > 0
  /\ Len(rateLimiter.queue) = options.maxQueueSize
  /\ \E op \in 1..MaxOps : settled[op] = "queue full"

\* The operations the limiter has started, in the order it started them.
Started == [i \in DOMAIN rateLimiter.starts |-> rateLimiter.starts[i][1]]

\* C21: operations are started in the order schedule() accepted them
\* (operations are numbered in the order of their schedule() calls): the
\* start history is increasing, the queue is increasing, and everything
\* started was accepted before everything still waiting.
C21_FifoAdmission ==
  /\ \A i, j \in DOMAIN Started : i < j => Started[i] < Started[j]
  /\ \A i, j \in DOMAIN rateLimiter.queue :
       i < j => rateLimiter.queue[i] < rateLimiter.queue[j]
  /\ \A i \in DOMAIN Started, j \in DOMAIN rateLimiter.queue :
       Started[i] < rateLimiter.queue[j]

\* C21 witness: three operations were accepted at the same instant by a paced
\* limiter with a single slot, and were started one by one at later instants.
C21_Witness ==
  /\ maxConcurrent = 1 /\ minInterval > 0
  /\ Started = <<1, 2, 3>>
  /\ rateLimiter.starts[1][2] < rateLimiter.starts[2][2]
  /\ rateLimiter.starts[2][2] < rateLimiter.starts[3][2]

\* The operations schedule() accepted.
Accepted ==
  Waiting \cup rateLimiter.running
  \cup { op \in 1..MaxOps : settled[op] \in {"resolved", "rejected"} }

\* C22 (release): the completion of a running operation hands the caller the
\* operation's outcome, releases one slot, and looks at the queue again: the
\* head is started at once when the pacing interval has elapsed, and a pacing
\* timer is armed for it otherwise.
C22_SlotReleased ==
  [][ \A op \in rateLimiter.running :
        settled'[op] # settled[op] =>
          LET l == rateLimiter
              n == rateLimiter'
              started == Len(n.starts) - Len(l.starts)
          IN  /\ settled'[op] \in {"resolved", "rejected"}
              /\ \A q \in 1..MaxOps \ {op} : settled'[q] = settled[q]
              /\ op \notin n.running
              /\ n.activeCount = l.activeCount - 1 + started
              /\ n.activeCount = Cardinality(n.running)
              /\ started \in {0, 1}
              /\ Len(l.queue) > 0 =>
                   IF now - l.lastStart >= minInterval
                     THEN started = 1 /\ Head(l.queue) \in n.running
                     ELSE started = 0 /\ BagCardinality(n.timers) = BagCardinality(l.timers) + 1
              /\ Len(l.queue) = 0 => started = 0 /\ n.timers = l.timers ]_vars

\* C22 (progress): provided every started operation completes, every
\* operation schedule() accepted is started, and its caller gets the
\* operation's result or failure.
C22_Progress ==
  \A op \in 1..MaxOps :
    /\ (op \in Waiting) ~> (op \in rateLimiter.running)
    /\ (op \in Accepted) ~> (settled[op] \in {"resolved", "rejected"})

\* C22: release and progress together.
C22_ReleaseAndProgress == C22_SlotReleased /\ C22_Progress

\* C22 witness: an operation that had to wait behind a full limiter has been
\* started after another one completed, and has completed itself.
C22_Witness ==
  /\ maxConcurrent = 1
  /\ Len(rateLimiter.starts) >= 2
  /\ settled[1] \in {"resolved", "rejected"}
  /\ settled[2] = "rejected"
  /\ rateLimiter.activeCount = 0

----------------------------------------------------------------------------
\* Claims about the PollScheduler.

\* The pending timers whose callback will run execute() on task object o:
\* the one its handle refers to and those no handle refers to.
PendingTimers(s, o) ==
  (IF s.objs[o].timeout.state = "pending" THEN 1 ELSE 0)
  + BagCardinality([tm \in { x \in BagToSet(s.leaked) : x.obj = o } |->
                     CopiesIn(tm, s.leaked)])

\* C7: while the scheduler is stopped (after stop(), before any later start())
\* no step starts a task action, whatever timers were pending or actions in
\* flight when stop() was called.
C7_StopEndsRuns ==
  [][ ~pollScheduler.running =>
        \A o \in DOMAIN pollScheduler.inflight :
          pollScheduler'.inflight[o] <= pollScheduler.inflight[o] ]_vars

\* C7 witness: the scheduler has been stopped while an action was in flight and
\* while a timer that stop() could not cancel is due.
C7_Witness ==
  /\ ~pollScheduler.running
  /\ \E o \in DOMAIN pollScheduler.objs : pollScheduler.inflight[o] > 0
  /\ \E tm \in BagToSet(pollScheduler.leaked) : tm.left = 0

\* C8 (as claimed): at most one execution of a registered task's action is in
\* flight at any instant.
C8_NoOverlap ==
  \A id \in DOMAIN pollScheduler.tasks :
    pollScheduler.inflight[pollScheduler.tasks[id]] <= 1

\* C9: when a task's action fails, the failure is logged, the task is
\* rescheduled as after a successful run (interval + jitter while running,
\* nothing when stopped), and no other task is touched.
C9_FailureIsolation ==
  [][ \A o \in DOMAIN pollScheduler.objs, r \in JitterDraws(pollScheduler) :
        ( /\ pollScheduler.inflight[o] > 0
          /\ pollScheduler' = settle(pollScheduler, o, "rejected", r) )
        =>
        LET s == pollScheduler
            n == pollScheduler'
            d == s.objs[o].interval + (IF s.jitter > 0 THEN r ELSE 0)
        IN  /\ s.objs[o].id \in n.logged
            /\ n.objs[o].timeout =
                 IF s.running THEN [state |-> "pending", left |-> d]
                 ELSE s.objs[o].timeout
            /\ n.objs[o].timeout = settle(s, o, "resolved", r).objs[o].timeout
            /\ n.running = s.running /\ n.tasks = s.tasks
            /\ \A q \in DOMAIN s.objs \ {o} :
                 /\ n.objs[q] = s.objs[q]
                 /\ n.inflight[q] = s.inflight[q]
                 /\ PendingTimers(n, q) = PendingTimers(s, q) ]_vars

\* C9 witness: a task whose action failed has been rescheduled, next to
\* another task whose timer is pending.
C9_Witness ==
  \E o \in DOMAIN pollScheduler.objs :
    /\ pollScheduler.objs[o].id \in pollScheduler.logged
    /\ pollScheduler.objs[o].timeout.state = "pending"
    /\ pollScheduler.objs[o].timeout.left > 0
    /\ pollScheduler.inflight[o] = 0
    /\ \E q \in DOMAIN pollScheduler.objs \ {o} :
         pollScheduler.objs[q].timeout.state = "pending"

\* C11: a task registered with immediate = true is given, by start(), exactly
\* one timer, of delay 0; a further execution of it starts only when the
\* previous one has completed, and the completion arms the timer of the next
\* one with the task's interval (+ jitter).
C11_ImmediateFirstRun ==
  [][ \A id \in DOMAIN pollScheduler.tasks :
        LET s == pollScheduler
            n == pollScheduler'
            o == s.tasks[id]
        IN  s.objs[o].immediate = "true" =>
              /\ ( ~s.running /\ n.running ) =>
                   /\ n.objs[o].timeout = [state |-> "pending", left |-> 0]
                   /\ PendingTimers(n, o) = 1
              /\ n.inflight[o] > s.inflight[o] => s.inflight[o] = 0
              /\ ( n.running /\ n.inflight[o] < s.inflight[o] ) =>
                   /\ n.objs[o].timeout.state = "pending"
                   /\ n.objs[o].timeout.left >= n.objs[o].interval ]_vars

\* C12: register() with an identifier that is already registered throws and
\* leaves the task map, every task's interval, flag and timer, the timers
\* and the running flag as they were.
C12_DuplicateRegistration ==
  [][ \A id \in TaskIds, interval \in Intervals, immediate \in ImmediateFlags,
         r \in JitterDraws(pollScheduler) :
        ( id \in DOMAIN pollScheduler.tasks
          /\ registerCall(id, interval, immediate, r) )
        => /\ thrown' = "already registered"
           /\ pollScheduler' = pollScheduler ]_vars

\* C12 witness: a register() call has just thrown on a running scheduler
\* whose task of that identifier has a timer pending.
C12_Witness ==
  /\ thrown = "already registered"
  /\ pollScheduler.running
  /\ \E id \in DOMAIN pollScheduler.tasks :
       pollScheduler.objs[pollScheduler.tasks[id]].timeout.state = "pending"

\* C10 (as claimed): updateInterval(id, n) on a running scheduler, for a
\* registered task with a pending timer, leaves the task with exactly one
\* pending timer, due n (+ jitter) after the call, and starts no run.
C10_UpdateIntervalReschedules ==
  [][ \A id \in TaskIds, n \in Intervals, r \in JitterDraws(pollScheduler) :
        ( /\ pollScheduler.running
          /\ id \in DOMAIN pollScheduler.tasks
          /\ PendingTimers(pollScheduler, pollScheduler.tasks[id]) > 0
          /\ updateIntervalCall(id, n, r) )
        =>
        LET o == pollScheduler.tasks[id]
            d == n + (IF pollScheduler.jitter > 0 THEN r ELSE 0)
        IN  /\ pollScheduler'.objs[o].timeout = [state |-> "pending", left |-> d]
            /\ PendingTimers(pollScheduler', o) = 1
            /\ pollScheduler'.inflight = pollScheduler.inflight ]_vars


\* The delays calculateDelay may give a task of this interval.
DelayRange(s, interval) ==
  IF s.jitter > 0 THEN interval..(interval + s.jitter - 1) ELSE {interval}

\* C23 (as claimed): when stop() was called while the one execution of a
\* task's action was in flight, the completion of that action creates no
\* timer for the task and changes none, also when start() was called again
\* in the meantime.
C23_StoppedInTheInterim ==
  [][ \A o \in DOMAIN pollScheduler.objs :
        ( /\ pollScheduler.inflight[o] = 1
          /\ pollScheduler.stopped[o] = 1
          /\ pollScheduler'.inflight[o] = 0 )
        => /\ PendingTimers(pollScheduler', o) = PendingTimers(pollScheduler, o)
           /\ pollScheduler'.objs[o].timeout = pollScheduler.objs[o].timeout ]_vars

\* C24 (as claimed): start(), and register() into a running scheduler, give a
\* task whose immediate flag is false or omitted a timer of delay interval
\* (+ jitter).
C24_NotSetMeansInterval ==
  [][ \A o \in DOMAIN pollScheduler'.objs :
        LET s == pollScheduler
            n == pollScheduler'
        IN  ( /\ \/ ~s.running /\ n.running /\ \E id \in DOMAIN s.tasks : s.tasks[id] = o
                 \/ s.running /\ o \notin DOMAIN s.objs
              /\ n.objs[o].immediate # "true" )
            => /\ n.objs[o].timeout.state = "pending"
               /\ n.objs[o].timeout.left \in DelayRange(n, n.objs[o].interval) ]_vars

\* C24 (amended): start(), and register() into a running scheduler, give a
\* task whose immediate flag is false a timer of delay interval (+ jitter),
\* and a task whose flag is true or omitted a timer of delay 0.
C24_FalseMeansInterval ==
  [][ \A o \in DOMAIN pollScheduler'.objs :
        LET s == pollScheduler
            n == pollScheduler'
        IN  ( \/ ~s.running /\ n.running /\ \E id \in DOMAIN s.tasks : s.tasks[id] = o
              \/ s.running /\ o \notin DOMAIN s.objs )
            => /\ n.objs[o].timeout.state = "pending"
               /\ n.objs[o].immediate = "false" =>
                    n.objs[o].timeout.left \in DelayRange(n, n.objs[o].interval)
               /\ n.objs[o].immediate # "false" => n.objs[o].timeout.left = 0 ]_vars

\* C24 witness: start() has given a task registered with immediate = false a
\* timer of its interval and a task registered without the flag one of 0.
C24_Witness ==
  /\ pollScheduler.running
  /\ calls = 3
  /\ \E o, q \in DOMAIN pollScheduler.objs :
       /\ pollScheduler.objs[o].immediate = "false"
       /\ pollScheduler.objs[o].timeout =
            [state |-> "pending", left |-> pollScheduler.objs[o].interval]
       /\ pollScheduler.objs[q].immediate = "undefined"
       /\ pollScheduler.objs[q].timeout = [state |-> "pending", left |-> 0]

\* C27: every timer schedule() creates has delay 0 when the decision is an
\* immediate one (start() or register() of a task whose flag is not false),
\* and otherwise (after a run, after updateInterval, non-immediate start or
\* register) a delay d with interval <= d < interval + jitter when jitter > 0
\* and d = interval when jitter <= 0.
C27_JitterRange ==
  [][ \A o \in DOMAIN pollScheduler'.objs :
        LET s == pollScheduler
            n == pollScheduler'
            isNew == o \notin DOMAIN s.objs
            decided == /\ n.objs[o].timeout.state = "pending"
                       /\ isNew \/ n.objs[o].timeout # s.objs[o].timeout
                       /\ calls' # calls \/ n.inflight # s.inflight
            immediate == /\ (~s.running /\ n.running) \/ isNew
                         /\ n.objs[o].immediate # "false"
            d == n.objs[o].timeout.left
            interval == n.objs[o].interval
        IN  decided =>
              IF immediate THEN d = 0
              ELSE /\ interval <= d
                   /\ n.jitter > 0 => d < interval + n.jitter
                   /\ n.jitter <= 0 => d = interval ]_vars

\* C27 witness: with jitter 2, a task of interval 2 that has run was
\* rescheduled with delay 3, next to a task started with delay 0.
C27_Witness ==
  /\ pollScheduler.jitter = 2
  /\ \E o, q \in DOMAIN pollScheduler.objs :
       /\ pollScheduler.objs[o].interval = 2
       /\ pollScheduler.objs[o].timeout = [state |-> "pending", left |-> 3]
       /\ o \in DOMAIN pollScheduler.inflight /\ pollScheduler.inflight[o] = 0
       /\ pollScheduler.objs[o].id \in pollScheduler.logged
       /\ pollScheduler.objs[q].timeout = [state |-> "pending", left |-> 0]

\* The task objects no identifier of the task map refers to any more.
Unregistered(s) ==
  { o \in DOMAIN s.objs : \A id \in DOMAIN s.tasks : s.tasks[id] # o }

\* C30 (as claimed): once unregister(id) has returned, the task's action is
\* never started again and no timer is created for it.
C30_UnregisterEndsTask ==
  [][ \A o \in Unregistered(pollScheduler) :
        /\ pollScheduler'.inflight[o] <= pollScheduler.inflight[o]
        /\ PendingTimers(pollScheduler', o) <= PendingTimers(pollScheduler, o) ]_vars

\* The calls other than c have not been made.
Alone(c) == \A b \in RequestIds \ {c} : requests[b].status = "idle"

\* The token refresh calls (POST /auth/token) in flight.
RefreshesInFlight ==
  { c \in RequestIds : InFlight(World, c) /\ Top(World, c).url = "refresh" }

\* C3: per client (here the one the app builds, behind its limiter), at most
\* one token refresh call (POST /auth/token) is in flight at any instant,
\* however many concurrent requests find the session expiring or are
\* answered 401.
C3_SingleFlightRefresh ==
  options = AppLimiterOptions => Cardinality(RefreshesInFlight) <= 1

\* A single authenticated request, made with a session present and not
\* expiring, whose first attempt was answered 401 and whose second 200, has
\* returned to its caller.
Recovered(c) ==
  /\ Alone(c)
  /\ requests[c].sessionAtCall = "valid"
  /\ requests[c].responses = <<401, 200>>
  /\ requests[c].status # "active"

\* What C4 promises of such a request: the 200 body is returned, after two
\* attempts, the second carrying the access token of the refresh.
RetriedWithRefreshedToken(c) ==
  /\ requests[c].status = "ok"
  /\ Len(requests[c].sent) = 2
  /\ requests[c].sent[2] # requests[c].sent[1]
  /\ requests[c].sent[2] = client.tokens.accessToken
  /\ requests[c].sent[2] = upstream.issued

\* C4 as stated: a single authenticated request (session present and not
\* expiring) answered 401 then 200 returns the 200 body after exactly one
\* refresh call and exactly two attempts, the second with the refreshed token.
C4_RecoveryWithOneRefresh ==
  \A c \in RequestIds :
    Recovered(c) => RetriedWithRefreshedToken(c) /\ requests[c].refreshes = 1

\* C4, amended: the same, provided the refresh response declares a lifetime
\* above 120 s. (A shorter one is stored as expiring in 60 s, inside the 60 s
\* window of the retry's ensureAuthenticated, which then refreshes again.)
C4_RecoveryWithOneRefreshOfLongLifetime ==
  \A c \in RequestIds :
    /\ Recovered(c) => RetriedWithRefreshedToken(c)
    /\ Recovered(c) /\ (\A i \in DOMAIN requests[c].lifetimes : requests[c].lifetimes[i] > 120)
         => requests[c].refreshes = 1 /\ requests[c].forced = 1

C4_Witness ==
  \E c \in RequestIds :
    /\ Recovered(c)
    /\ requests[c].lifetimes = <<3600>>
    /\ requests[c].refreshes = 1
    /\ requests[c].status = "ok"

\* The top frame of call c waits in the limiter's queue while every slot is
\* held by a frame of c that awaits it: the request can make no further step.
Hung(c) ==
  /\ requests[c].status = "active"
  /\ Top(World, c).pc = "scheduled"
  /\ OpOf(c, Depth(World, c)) \notin rateLimiter.running
  /\ rateLimiter.activeCount >= maxConcurrent
  /\ \A op \in rateLimiter.running : op[1] = c /\ op[2] < Depth(World, c)

\* The delays of the first n backoff sleeps.
RECURSIVE Backoffs(_)
Backoffs(n) == IF n = 0 THEN <<>> ELSE Append(Backoffs(n - 1), backoff(n - 1))

\* C5: a request (of the client the app builds) whose every attempt is
\* answered 429 or 5xx goes on until it has made exactly 5 attempts and slept
\* 1000, 2000, 4000, 8000 ms, and then fails with the last status: it never
\* stops short of that.
C5_RetryBudget ==
  \A c \in RequestIds :
    /\ options = AppLimiterOptions
    /\ Alone(c)
    /\ requests[c].sessionAtCall = "valid"
    /\ requests[c].refreshes = 0
    /\ \A i \in DOMAIN requests[c].responses : requests[c].responses[i] \in {429, 503}
    => /\ ~Hung(c)
       /\ requests[c].status # "ok"
       /\ Len(requests[c].responses) <= 5
       /\ requests[c].sleeps = Backoffs(Min2(Len(requests[c].responses), 4))
       /\ requests[c].status = "failed" =>
            /\ Len(requests[c].responses) = 5
            /\ requests[c].error = [kind |-> "http", status |-> requests[c].responses[5]]

\* C13: a request (of the client the app builds) whose every attempt is
\* answered 401, each refresh being granted a long-lived session that the
\* store accepts, goes on
\* until it has made 3 attempts and 2 forced refresh calls, and then fails
\* with the 401: it never stops short of that, and never refreshes more.
C13_UnauthorizedRetryLimit ==
  \A c \in RequestIds :
    /\ options = AppLimiterOptions
    /\ Alone(c)
    /\ requests[c].sessionAtCall = "valid"
    /\ \A i \in DOMAIN requests[c].responses : requests[c].responses[i] = 401
    /\ \A i \in DOMAIN requests[c].lifetimes : requests[c].lifetimes[i] > 120
    /\ \A i \in DOMAIN requests[c].tokenResponses : requests[c].tokenResponses[i] = 200
    /\ ~client.storeFails
    => /\ ~Hung(c)
       /\ requests[c].status # "ok"
       /\ Len(requests[c].responses) <= 3
       /\ requests[c].refreshes <= 2
       /\ requests[c].status = "failed" =>
            /\ Len(requests[c].responses) = 3
            /\ requests[c].refreshes = 2
            /\ requests[c].forced = 2

\* The statuses of failures that are neither 401 nor retryable: a 4xx other
\* than 401 and 429, and an error without a status.
NonRetryable == {404, 0}

\* C14: when an attempt of a request is answered with a 4xx status other than
\* 401 and 429, or fails without a status, the request fails towards the
\* caller with that error in the same step: no further attempt, no backoff
\* sleep, no refresh call; a first attempt so answered is the only one.
C14_NonRetryableSurfaced ==
  [][ \A c \in RequestIds, status \in NonRetryable :
        ( /\ InFlight(World, c)
          /\ Top(World, c).url = "api"
          /\ answer(c, status) )
        => /\ requests'[c].status = "failed"
           /\ requests'[c].error = [kind |-> "http", status |-> status]
           /\ requests'[c].frames = <<>>
           /\ requests'[c].responses = Append(requests[c].responses, status)
           /\ requests'[c].sleeps = requests[c].sleeps
           /\ requests'[c].refreshes = requests[c].refreshes
           /\ \A op \in rateLimiter'.running \cup
                         { rateLimiter'.queue[i] : i \in DOMAIN rateLimiter'.queue } :
                op[1] # c ]_vars

\* C14 witness: a request has failed with 404 after one attempt, without
\* sleep or refresh.
C14_Witness ==
  \E c \in RequestIds :
    /\ requests[c].status = "failed"
    /\ requests[c].error = [kind |-> "http", status |-> 404]
    /\ requests[c].responses = <<404>>
    /\ requests[c].sleeps = <<>>
    /\ requests[c].refreshes = 0

\* C15 (as claimed): an attempt that ends in the transport timeout (an error
\* without a status), the attempt count being below 4, is followed by a
\* backoff sleep of min(1000 * 2^attempt, 15000) ms and a retry.
C15_TimeoutRetried ==
  [][ \A c \in RequestIds :
        ( /\ InFlight(World, c)
          /\ Top(World, c).url = "api"
          /\ Top(World, c).attempt < 4
          /\ answer(c, 0) )
        => /\ requests'[c].status = "active"
           /\ requests'[c].sleeps =
                Append(requests[c].sleeps, backoff(Top(World, c).attempt)) ]_vars

\* C15 (amended): an attempt that ends in the transport timeout is not
\* retried, whatever its attempt count: the request fails towards the caller
\* at once with the status-less error, and no backoff sleep is added.
C15_TimeoutSurfaced ==
  [][ \A c \in RequestIds :
        ( /\ InFlight(World, c)
          /\ Top(World, c).url = "api"
          /\ answer(c, 0) )
        => /\ requests'[c].status = "failed"
           /\ requests'[c].error = [kind |-> "http", status |-> 0]
           /\ requests'[c].sleeps = requests[c].sleeps
           /\ Len(requests'[c].responses) = Len(requests[c].responses) + 1 ]_vars

\* C15 witness: a retry (attempt 1, after a 503 and its backoff sleep) timed
\* out and the request failed without a second sleep.
C15_Witness ==
  \E c \in RequestIds :
    /\ requests[c].status = "failed"
    /\ requests[c].responses = <<503, 0>>
    /\ requests[c].sleeps = <<1000>>
    /\ requests[c].error = [kind |-> "http", status |-> 0]

\* A login or refresh is under way in some call.
MutationInProgress ==
  \E c \in RequestIds :
    \E i \in DOMAIN requests[c].frames : requests[c].frames[i].url # "api"

\* C16: once the session has been loaded, whenever no login or refresh is in
\* progress the session in memory is the one the credential store holds (in
\* particular after a mutation whose store write failed).
C16_WriteThrough ==
  ( client.tokensLoaded /\ ~MutationInProgress ) => client.tokens = client.store

\* C17: when the upstream rejects a refresh or a login (401), the session is
\* cleared from memory and from the credential store.
C17_RejectedRefreshClears ==
  [][ \A c \in RequestIds :
        ( /\ InFlight(World, c)
          /\ Top(World, c).url # "api"
          /\ answer(c, 401) )
        => /\ client'.tokens = NoTokens
           /\ client'.store = NoTokens ]_vars

Authenticated ==
  { f \in UNION { { requests[c].frames[i] : i \in DOMAIN requests[c].frames } :
                    c \in RequestIds } : f.obtained # "none" }

\* C19 (as claimed): every authenticated request carries an access token
\* whose recorded remaining lifetime, when the token was obtained, was at
\* least 60 s.
C19_TokenHasSixtySeconds ==
  \A f \in Authenticated : f.remaining >= 60 * 1000

\* C19 (amended): a token taken from the cached session has at least 60 s of
\* recorded lifetime left when it is obtained; when the cached session has
\* less, a refresh is performed first and the request carries the refreshed
\* token, unchecked, whose recorded lifetime was at least 60 s when the
\* refresh response was parsed (less the time gone by since).
C19_ProactiveRefresh ==
  \A f \in Authenticated :
    /\ f.obtained = "cache" => f.remaining >= 60 * 1000
    /\ f.obtained = "refresh" =>
         /\ \E e \in ClockSteps : f.remaining + e >= 60 * 1000
         /\ f.token \in 2..upstream.issued

\* C19 witness: a call made with an expiring session has its request
\* scheduled with the token of the refresh it performed first.
C19_Witness ==
  \E c \in RequestIds :
    /\ requests[c].sessionAtCall = "expiring"
    /\ requests[c].status = "active"
    /\ Top(World, c).url = "api"
    /\ Top(World, c).obtained = "refresh"
    /\ Top(World, c).token = client.tokens.accessToken
    /\ Top(World, c).remaining >= 60 * 1000

\* C20: the session stored for a token response that declares lifetime L
\* expires no later than L - 60 s after the response was parsed.
C20_ExpiryMargin ==
  [][ \A c \in RequestIds, lifetime \in Lifetimes, e \in ClockSteps :
        ( InFlight(World, c) /\ grant(c, lifetime, e) )
        => /\ client'.tokens.accessToken = upstream'.issued
           /\ client'.tokens.expiresAt <= now + (lifetime - 60) * 1000 ]_vars

\* C25 (as claimed): a failure of the credential store does not change the
\* outcome the upstream's responses determine: a login answered with tokens
\* returns its session, and a request whose refresh is answered with tokens
\* goes on.
C25_StoreFailureCaught ==
  [][ \A c \in RequestIds, lifetime \in Lifetimes, e \in ClockSteps :
        ( InFlight(World, c) /\ grant(c, lifetime, e) )
        => /\ Top(World, c).url = "login" => requests'[c].status = "ok"
           /\ Top(World, c).url = "refresh" => requests'[c].status = "active"
           /\ client'.store = client'.tokens ]_vars

\* Every limiter slot is held by a request() that awaits a nested request()
\* (a retry or a refresh) which has not been started: no slot can be released,
\* so nothing in the queue is ever started.
Blocked ==
  /\ rateLimiter.activeCount >= maxConcurrent
  /\ \A op \in rateLimiter.running : op[2] < Depth(World, op[1])

\* C29 (as claimed): a retry or refresh never waits for a slot while the
\* failed attempt still holds one, so the requests never block each other
\* for ever.
C29_RequestsTerminate == ~Blocked

\* The calls that are writeState calls and have been answered at least once.
Writes ==
  { c \in RequestIds : Len(requests[c].methods) > 0 /\ requests[c].methods[1] = "POST" }

\* The attempts of call c made with the given method.
Attempts(c, method) ==
  { i \in DOMAIN requests[c].methods : requests[c].methods[i] = method }

\* No state read is attempted unless a control POST before it was answered
\* successfully, and no POST is attempted after that.
ReadOnlyAfterPost(c) ==
  \A i \in Attempts(c, "GET") :
    /\ \E j \in Attempts(c, "POST") : j < i /\ requests[c].responses[j] = 200
    /\ \A j \in Attempts(c, "POST") : j < i

\* C26 (as claimed): a writeState that returns successfully has made exactly
\* one control POST, then a state read, and returns what that read was
\* answered; no read follows a failed POST.
C26_OnePostThenRead ==
  \A c \in Writes :
    /\ ReadOnlyAfterPost(c)
    /\ requests[c].status = "ok" =>
         /\ Cardinality(Attempts(c, "POST")) = 1
         /\ Attempts(c, "GET") # {}
         /\ requests[c].result = Len(requests[c].responses)
         /\ requests[c].methods[requests[c].result] = "GET"
         /\ requests[c].responses[requests[c].result] = 200

\* C26 (amended): a writeState that returns successfully has made one control
\* request, whose POST was sent once or, after 401, 429 or 5xx answers,
\* again, the last time being answered successfully; then a state
\* read, likewise retried, attempted only after that; and it returns what the
\* last read was answered. No read follows a failed POST.
C26_WriteThenReconcile ==
  \A c \in Writes :
    /\ ReadOnlyAfterPost(c)
    /\ requests[c].status = "ok" =>
         /\ \E k \in Attempts(c, "POST") :
              /\ requests[c].responses[k] = 200
              /\ Attempts(c, "POST") = 1..k
              /\ \A i \in 1..(k - 1) : requests[c].responses[i] \in {401, 429, 503}
              /\ Attempts(c, "GET") = (k + 1)..Len(requests[c].methods)
         /\ Attempts(c, "GET") # {}
         /\ requests[c].result = Len(requests[c].responses)
         /\ requests[c].methods[requests[c].result] = "GET"
         /\ requests[c].responses[requests[c].result] = 200
         /\ \A i \in Attempts(c, "GET") \ {requests[c].result} :
              requests[c].responses[i] \in {401, 429, 503}

\* C26 witness: a writeState has returned the answer of its read after a
\* POST that was answered 503 and then, retried, 200.
C26_Witness ==
  \E c \in RequestIds :
    /\ requests[c].status = "ok"
    /\ requests[c].methods = <<"POST", "POST", "GET">>
    /\ requests[c].responses = <<503, 200, 200>>
    /\ requests[c].result = 3

\* C28 (as claimed): whatever the logging sink does when a failure is
\* reported, the step taken on an error response is the one taken with a
\* sink that never throws: the same retry, refresh or sleep, or the same
\* error handed to the caller.
C28_LoggingCannotFail ==
  [][ \A c \in RequestIds, status \in (ApiStatuses \cup RefreshStatuses) \ {200} :
        ( InFlight(World, c) /\ answer(c, status) )
        => LET quiet == onResponse([Answered(World) EXCEPT !.client.loggerThrows = FALSE],
                                   c, status, NoData, now, now)
           IN  /\ requests' = quiet.requests
               /\ rateLimiter' = quiet.rateLimiter
               /\ client'.tokens = quiet.client.tokens ]_vars

\* C32 (as claimed): every registered task has at most one pending timer, and
\* that timer is the one its timeout handle refers to.
C32_OneTimerPerTask ==
  \A id \in DOMAIN pollScheduler.tasks :
    LET o == pollScheduler.tasks[id]
    IN  /\ PendingTimers(pollScheduler, o) <= 1
        /\ \A tm \in BagToSet(pollScheduler.leaked) : tm.obj # o

\* Task object o is the task some identifier is registered under.
Registered(o) ==
  \E id \in DOMAIN pollScheduler.tasks : pollScheduler.tasks[id] = o

\* An execution of task object o's action is in flight.
Executing(o) ==
  o \in DOMAIN pollScheduler.inflight /\ pollScheduler.inflight[o] > 0

\* C37 (rescheduling): the completion of a run of a registered task, by
\* success or by failure, on a running scheduler leaves the task with a
\* pending timer.
C37_RunArmsNext ==
  [][ \A o \in DOMAIN pollScheduler.objs :
        ( /\ pollScheduler.running /\ Registered(o)
          /\ pollScheduler'.inflight[o] < pollScheduler.inflight[o] )
        => pollScheduler'.objs[o].timeout.state = "pending" ]_vars

\* C37 (liveness): a registered task of a running scheduler whose action is
\* not in flight is executed again, unless the scheduler is stopped or the
\* task unregistered first; whatever the other tasks do.
C37_RunsAgain ==
  \A o \in 1..MaxCalls :
    ( Registered(o) /\ pollScheduler.running /\ ~Executing(o) )
    ~> ( Executing(o) \/ ~pollScheduler.running \/ ~Registered(o) )

\* C37: every completed run is followed by a next one.
C37_RecurringLiveness == C37_RunArmsNext /\ C37_RunsAgain

\* C37 witness: a task whose run has failed is executing again, while the
\* action of another task is still in flight.
C37_Witness ==
  /\ pollScheduler.running
  /\ \E o, q \in DOMAIN pollScheduler.objs :
       /\ o # q /\ Registered(o) /\ Registered(q)
       /\ pollScheduler.objs[o].id \in pollScheduler.logged
       /\ pollScheduler.objs[o].timeout.state = "fired"
       /\ pollScheduler.inflight[o] = 1
       /\ pollScheduler.inflight[q] = 1
       /\ pollScheduler.objs[q].id \notin pollScheduler.logged

\* C33: whatever the upstream answers, a request is sent at most 5 times,
\* with at most 2 forced refreshes and at most 4 backoff sleeps: a 401 is
\* followed by a refresh only on the attempts numbered 0 and 1, a 429 or 5xx
\* by a sleep only on those numbered 0 to 3, and every failure of the attempt
\* numbered 4 is handed to the caller.
C33_AttemptBound ==
  /\ [](\A c \in RequestIds :
          /\ Len(requests[c].responses) <= 5
          /\ requests[c].forced <= 2
          /\ Len(requests[c].sleeps) <= 4
          /\ \A i \in DOMAIN requests[c].frames : requests[c].frames[i].attempt <= 4)
  /\ [][ \A c \in RequestIds, status \in ApiStatuses \ {200} :
           ( /\ InFlight(World, c)
             /\ Top(World, c).url = "api"
             /\ answer(c, status) )
           => LET attempt == Top(World, c).attempt
              IN  /\ requests'[c].forced > requests[c].forced => attempt < 2
                  /\ Len(requests'[c].sleeps) > Len(requests[c].sleeps) => attempt < 4
                  /\ attempt = 4 =>
                       /\ requests'[c].status = "failed"
                       /\ requests'[c].error = [kind |-> "http", status |-> status]
                       /\ requests'[c].frames = <<>> ]_vars

\* C33 witness: a request answered 401, 401, 503, 503, 503 has failed with
\* the last 503 after 5 attempts, 2 forced refreshes and 2 sleeps.
C33_Witness ==
  /\ requests[1].status = "failed"
  /\ requests[1].responses = <<401, 401, 503, 503, 503>>
  /\ requests[1].forced = 2
  /\ requests[1].sleeps = <<4000, 8000>>
  /\ requests[1].error = [kind |-> "http", status |-> 503]

\* C34: a login or refresh request never has requiresAuth set and never
\* carries an access token; an answer that fails it (anything it is not
\* retried on after a backoff, 401 included) starts no refresh and makes the
\* call fail at once, without a further attempt of the request that needed
\* the refresh.
C34_RefreshDoesNotRecurse ==
  /\ [](\A c \in RequestIds : \A i \in DOMAIN requests[c].frames :
          requests[c].frames[i].url # "api" =>
            /\ ~requests[c].frames[i].requiresAuth
            /\ requests[c].frames[i].token = 0
            /\ requests[c].frames[i].obtained = "none")
  /\ [][ \A c \in RequestIds, status \in RefreshStatuses \ {200} :
           ( /\ InFlight(World, c)
             /\ Top(World, c).url # "api"
             /\ answer(c, status) )
           => /\ requests'[c].refreshes = requests[c].refreshes
              /\ requests'[c].responses = requests[c].responses
              /\ \/ requests'[c].status = "active"
                    /\ status # 401
                    /\ Top(World', c).pc = "sleeping"
                    /\ Top(World', c).url = Top(World, c).url
                 \/ requests'[c].status = "failed"
                    /\ requests'[c].error = [kind |-> "http", status |-> status]
                    /\ requests'[c].frames = <<>> ]_vars

\* C34 witness: a request answered 401 has failed with the 401 its forced
\* refresh was answered, after one attempt and one refresh.
C34_Witness ==
  /\ requests[1].status = "failed"
  /\ requests[1].responses = <<401>>
  /\ requests[1].tokenResponses = <<401>>
  /\ requests[1].forced = 1
  /\ requests[1].refreshes = 1
  /\ requests[1].error = [kind |-> "http", status |-> 401]

----------------------------------------------------------------------------
\* Claims about the clients sharing the credential store.

\* The session call c works with once it has been made: what getTokens() of
\* its client returned.
SessionUsed(c) == Tokens(World, c)

\* Some call of another client than o has been granted tokens (its login or
\* refresh has completed and stored them).
OtherClientStored(o) ==
  \E b \in DOMAIN requests :
    requests[b].status # "idle" /\ requests[b].owner # o /\ requests[b].lifetimes # <<>>

\* C31: after a client has completed a login or a refresh, an authenticated
\* request another client starts works with the session the store holds, not
\* with one (or the absence of one) it cached earlier.
C31_SessionCoherence ==
  [][ \A c \in DOMAIN requests :
        ( /\ requests[c].status = "idle"
          /\ requests'[c].status # "idle"
          /\ requests'[c].sessionAtCall # "login"
          /\ OtherClientStored(requests'[c].owner) )
        => SessionUsed(c)' = client.store ]_vars

----------------------------------------------------------------------------
\* Claims about the state cache and the write payload.

\* The answer call c is waiting for is the 200 to a read of device d, and the
\* call returns with it.
ReadSucceeds(c, d) ==
  /\ InFlight(World, c)
  /\ requests[c].deviceId = d
  /\ requests[c].method = "GET"
  /\ requests'[c].status = "ok"
  /\ Len(requests'[c].responses) = Len(requests[c].responses) + 1
  /\ requests'[c].responses[Len(requests'[c].responses)] = 200

\* C35: the cache entry of device d changes only in the step in which a read
\* of d succeeds, and is then the state decoded from that response; a read of
\* d that succeeds does set it; no entry is ever removed.
C35_StateCacheUpdates ==
  [][ \A d \in DeviceIds :
        /\ client'.stateCache[d] # client.stateCache[d]
              => /\ \E c \in DOMAIN requests : ReadSucceeds(c, d)
                 /\ client'.stateCache[d].raw = upstream'.answers
        /\ (\E c \in DOMAIN requests : ReadSucceeds(c, d))
              => client'.stateCache[d].raw = upstream'.answers
        /\ client.stateCache[d] # NoState => client'.stateCache[d] # NoState ]_vars

\* Device 1 has been read, a later write to it has failed and a write to
\* device 2 is under way; the entry of device 1 is still the state read.
C35_Witness ==
  /\ client.stateCache[1].raw = 1
  /\ client.stateCache[2] = NoState
  /\ requests[1].status = "ok" /\ requests[1].deviceId = 1
  /\ requests[2].status = "failed" /\ requests[2].deviceId = 1
  /\ requests[2].patch # NoPatch

\* t brought into [min, max].
Within(t, min, max) == IF t < min THEN min ELSE IF t > max THEN max ELSE t

\* writeState builds the payload of call c in this step.
PayloadBuilt(c) ==
  /\ requests[c].payload = NoPayload
  /\ requests'[c].payload # NoPayload

\* The fields the patch of call c lacks are not in its payload.
AbsentStayAbsent(c) ==
  LET patch == requests'[c].patch
      payload == requests'[c].payload
  IN  /\ patch.on = "undefined" => payload.operate = undefined
      /\ patch.thermostatMode = "undefined" => payload.operationMode = undefined
      /\ patch.targetTemperature = undefined => payload.targetTemp = undefined
      /\ patch.fanSpeed = "undefined" => payload.fanSpeed = undefined
      /\ patch.swingMode = "undefined"
           => payload.airSwingUD = undefined /\ payload.airSwingLR = undefined

\* The temperature of the payload of call c is the patch's, brought into the
\* bounds the patch or else the cached state supplies, when both are supplied.
ClampedIntoBounds(c) ==
  LET patch == requests'[c].patch
      current == client.stateCache[requests'[c].deviceId]
      min == Coalesce(patch.minTemperature, current.minTemperature)
      max == Coalesce(patch.maxTemperature, current.maxTemperature)
  IN  ( patch.targetTemperature # undefined /\ min # undefined /\ max # undefined
        /\ min <= max )
        => requests'[c].payload.targetTemp = Within(patch.targetTemperature, min, max)

\* C38 (as stated): the encoded targetTemp is the patch's temperature clamped
\* into the bounds the cached or patched state supplies; fields absent from
\* the patch are absent from the payload; and when no state is cached for the
\* device the temperature is sent unclamped.
C38_PayloadRespectsBounds ==
  [][ \A c \in DOMAIN requests :
        PayloadBuilt(c)
        => /\ ClampedIntoBounds(c)
           /\ AbsentStayAbsent(c)
           /\ ( requests'[c].patch.targetTemperature # undefined
                /\ client.stateCache[requests'[c].deviceId] = NoState )
                => requests'[c].payload.targetTemp
                     = requests'[c].patch.targetTemperature ]_vars

\* C38 (amended): as above, the temperature being sent unclamped when no
\* state is cached for the device and the patch carries no bounds itself.
C38_PayloadRespectsBounds_Amended ==
  [][ \A c \in DOMAIN requests :
        PayloadBuilt(c)
        => /\ ClampedIntoBounds(c)
           /\ AbsentStayAbsent(c)
           /\ ( requests'[c].patch.targetTemperature # undefined
                /\ client.stateCache[requests'[c].deviceId] = NoState
                /\ requests'[c].patch.minTemperature = undefined
                /\ requests'[c].patch.maxTemperature = undefined )
                => requests'[c].payload.targetTemp
                     = requests'[c].patch.targetTemperature ]_vars

\* A write of 40 degrees to device 1 was encoded as 30, the upper bound of
\* the state cached by an earlier read, and carries no other field.
C38_Witness ==
  /\ requests[1].status = "ok" /\ requests[1].method = "GET"
  /\ client.stateCache[1].maxTemperature = 30
  /\ requests[2].deviceId = 1
  /\ requests[2].patch = [NoPatch EXCEPT !.targetTemperature = 40]
  /\ requests[2].payload = [NoPayload EXCEPT !.targetTemp = 30]

----------------------------------------------------------------------------
\* Claims about the device's polling.

\* The reads of the device that are in flight.
PollsInFlight == { c \in DOMAIN requests : requests[c].status = "active" }

\* C36: at most one read of the device's pollOnce is in flight; the flag is
\* set exactly while a pollOnce is in progress, so it is reset when the poll
\* ends; a pollOnce entered while the flag is set issues no read and leaves
\* the poll in progress alone; and no execute() of the scheduler has caught
\* a failure of pollOnce.
C36_PerDevicePollGuard ==
  /\ [](Cardinality(PollsInFlight) <= 1)
  /\ [](\A c \in PollsInFlight : device.polling /\ device.poll = c)
  /\ [](device.polling <=> device.poll # 0)
  /\ [](pollScheduler.logged = {})
  /\ [][ ( device'.entered # device.entered /\ device.polling )
          => /\ requests' = requests
             /\ device'.polling
             /\ device'.poll = device.poll ]_vars
  /\ [][ ( device.poll # 0 /\ device'.poll = 0 )
          => /\ requests[device.poll].status \in {"ok", "failed"}
             /\ ~device'.polling ]_vars

\* Two polls have ended, one by a failed read and one by a successful one,
\* the flag is reset, and an odd number of ticks (so at least one) arrived
\* while a poll was in progress.
C36_Witness ==
  /\ requests[1].status = "failed"
  /\ requests[2].status = "ok"
  /\ ~device.polling
  /\ device.poll = 0
  /\ device.entered = 1

\* C39: once onDeleted has run no read is issued for the device; and the
\* device never has more than one running scheduler, and has one while it is
\* initialised and not deleted.
C39_PollingEndsWithDevice ==
  /\ [][ device.deleted
          => \A c \in DOMAIN requests :
               requests[c].status = "idle" => requests'[c].status = "idle" ]_vars
  /\ [](device.schedulers <= 1)
  /\ []((device.initialised /\ ~device.deleted) => device.schedulers = 1)

====
